---- MODULE Spec2Model ----
(***************************************************************************)
(* Prestige: the rules engine (game/rules.ts), the transition function     *)
(* (game/engine.ts) and the turn controller (game/turnController.ts).      *)
(* A GameState is one record value; every reducer is an operator from a    *)
(* state and an action to a result (a new state, or a thrown error).       *)
(***************************************************************************)
EXTENDS Integers, Sequences, FiniteSets, TLC

VARIABLES
    state,      \* the GameState the running call works on (the caller's state when idle)
    saved,      \* the caller's GameState while an executeTurn call is in flight
    pc,         \* "idle": no call in flight; "ai": inside the loop of executeAITurn;
                \* "returned", "threw": executeTurn is over, its caller has not resumed
    aiPlayers,  \* TurnController.aiPlayers: the player indices with a registered AI
    last,       \* the executeTurn call in flight or rejected: its action and how it ended
    hist,       \* history: who first reached the winning points, turns ended since
    calls       \* number of accepted executeTurn calls so far

vars == <<state, saved, pc, aiPlayers, last, hist, calls>>

-----------------------------------------------------------------------------
(* Bounds of the model *)

MaxCalls == 2

-----------------------------------------------------------------------------
(* types: Color, GemCost *)

Colors == <<"red", "blue", "green", "white", "black">>
ColorSet == {"red", "blue", "green", "white", "black"}
AllColors == <<"red", "blue", "green", "white", "black", "gold">>
AllColorSet == ColorSet \cup {"gold"}

\* rules.ts constants
MAX_GEMS_PER_PLAYER == 10
MAX_RESERVED_CARDS == 3
WINNING_POINTS == 15

\* data/index.ts
GOLD_GEMS == 5
GEMS_PER_PLAYER_COUNT(n) == CASE n = 2 -> 4 [] n = 3 -> 5 [] n = 4 -> 7 [] OTHER -> 4

Cost(r, b, g, w, k) == [red |-> r, blue |-> b, green |-> g, white |-> w, black |-> k]
Gems(r, b, g, w, k, o) ==
    [red |-> r, blue |-> b, green |-> g, white |-> w, black |-> k, gold |-> o]
NoGems == Gems(0, 0, 0, 0, 0, 0)

Max(a, b) == IF a >= b THEN a ELSE b
Min(a, b) == IF a <= b THEN a ELSE b

\* the sum of a per-colour count over the five colours
SumColors(f) == f.red + f.blue + f.green + f.white + f.black

\* number of occurrences of x in the sequence s
Occ(s, x) == Cardinality({i \in DOMAIN s : s[i] = x})
SeqSet(s) == {s[i] : i \in DOMAIN s}
\* Array.prototype.filter(c => c.id !== id) on a sequence of ids
Without(s, x) == SelectSeq(s, LAMBDA y : y # x)
Rest(s) == IF s = <<>> THEN <<>> ELSE Tail(s)

-----------------------------------------------------------------------------
(* game/data/cards.ts, game/data/nobles.ts: the catalog *)

Card(id, level, points, color, cost) ==
    [id |-> id, level |-> level, points |-> points, color |-> color, cost |-> cost]

LEVEL_1_CARDS == <<
    Card("L1-01", 1, 0, "red",   Cost(0, 0, 0, 2, 2)),
    Card("L1-02", 1, 0, "red",   Cost(0, 3, 0, 0, 0)),
    Card("L1-03", 1, 1, "red",   Cost(0, 0, 3, 1, 0)),
    Card("L1-04", 1, 0, "red",   Cost(0, 2, 2, 0, 0)),
    Card("L1-05", 1, 1, "red",   Cost(0, 0, 0, 4, 0)),
    Card("L1-06", 1, 0, "red",   Cost(0, 0, 0, 2, 3)),
    Card("L1-07", 1, 0, "red",   Cost(0, 1, 2, 0, 0)),
    Card("L1-08", 1, 1, "red",   Cost(0, 0, 0, 0, 4)),
    Card("L1-09", 1, 0, "blue",  Cost(2, 0, 2, 0, 0)),
    Card("L1-10", 1, 0, "blue",  Cost(0, 0, 0, 3, 0)),
    Card("L1-11", 1, 1, "blue",  Cost(0, 0, 0, 1, 3)),
    Card("L1-12", 1, 0, "blue",  Cost(3, 0, 0, 0, 1)),
    Card("L1-13", 1, 1, "blue",  Cost(0, 0, 4, 0, 0)),
    Card("L1-14", 1, 0, "blue",  Cost(0, 0, 0, 2, 2)),
    Card("L1-15", 1, 0, "blue",  Cost(1, 0, 3, 0, 0)),
    Card("L1-16", 1, 1, "blue",  Cost(0, 0, 0, 4, 0)),
    Card("L1-17", 1, 0, "green", Cost(3, 1, 0, 0, 0)),
    Card("L1-18", 1, 0, "green", Cost(0, 0, 0, 0, 3)),
    Card("L1-19", 1, 1, "green", Cost(0, 0, 0, 3, 1)),
    Card("L1-20", 1, 0, "green", Cost(2, 0, 0, 2, 0)),
    Card("L1-21", 1, 1, "green", Cost(0, 4, 0, 0, 0)),
    Card("L1-22", 1, 0, "green", Cost(3, 0, 0, 1, 0)),
    Card("L1-23", 1, 0, "green", Cost(0, 2, 0, 0, 2)),
    Card("L1-24", 1, 1, "green", Cost(4, 0, 0, 0, 0)),
    Card("L1-25", 1, 0, "white", Cost(3, 0, 1, 0, 0)),
    Card("L1-26", 1, 0, "white", Cost(0, 0, 0, 0, 3)),
    Card("L1-27", 1, 1, "white", Cost(0, 3, 0, 0, 1)),
    Card("L1-28", 1, 0, "white", Cost(2, 2, 0, 0, 0)),
    Card("L1-29", 1, 1, "white", Cost(0, 0, 4, 0, 0)),
    Card("L1-30", 1, 0, "white", Cost(0, 3, 1, 0, 0)),
    Card("L1-31", 1, 0, "white", Cost(2, 0, 0, 0, 2)),
    Card("L1-32", 1, 1, "white", Cost(0, 0, 0, 0, 4)),
    Card("L1-33", 1, 0, "black", Cost(3, 0, 0, 1, 0)),
    Card("L1-34", 1, 0, "black", Cost(0, 0, 3, 0, 0)),
    Card("L1-35", 1, 1, "black", Cost(0, 3, 1, 0, 0)),
    Card("L1-36", 1, 0, "black", Cost(2, 0, 2, 0, 0)),
    Card("L1-37", 1, 1, "black", Cost(0, 0, 0, 4, 0)),
    Card("L1-38", 1, 0, "black", Cost(0, 3, 0, 1, 0)),
    Card("L1-39", 1, 0, "black", Cost(0, 0, 2, 2, 0)),
    Card("L1-40", 1, 1, "black", Cost(0, 4, 0, 0, 0)) >>

LEVEL_2_CARDS == <<
    Card("L2-01", 2, 1, "red",   Cost(0, 0, 0, 5, 3)),
    Card("L2-02", 2, 2, "red",   Cost(0, 5, 2, 0, 0)),
    Card("L2-03", 2, 1, "red",   Cost(0, 0, 6, 0, 1)),
    Card("L2-04", 2, 3, "red",   Cost(0, 0, 0, 6, 3)),
    Card("L2-05", 2, 2, "red",   Cost(0, 3, 4, 0, 2)),
    Card("L2-06", 2, 1, "red",   Cost(0, 3, 0, 4, 0)),
    Card("L2-07", 2, 1, "blue",  Cost(5, 0, 0, 0, 3)),
    Card("L2-08", 2, 2, "blue",  Cost(0, 0, 5, 2, 0)),
    Card("L2-09", 2, 1, "blue",  Cost(0, 0, 0, 6, 1)),
    Card("L2-10", 2, 3, "blue",  Cost(6, 0, 0, 0, 3)),
    Card("L2-11", 2, 2, "blue",  Cost(3, 0, 0, 4, 2)),
    Card("L2-12", 2, 1, "blue",  Cost(0, 0, 4, 0, 3)),
    Card("L2-13", 2, 1, "green", Cost(5, 0, 0, 3, 0)),
    Card("L2-14", 2, 2, "green", Cost(0, 5, 0, 0, 2)),
    Card("L2-15", 2, 1, "green", Cost(0, 0, 0, 1, 6)),
    Card("L2-16", 2, 3, "green", Cost(6, 0, 0, 3, 0)),
    Card("L2-17", 2, 2, "green", Cost(2, 3, 0, 4, 0)),
    Card("L2-18", 2, 1, "green", Cost(4, 3, 0, 0, 0)),
    Card("L2-19", 2, 1, "white", Cost(5, 0, 3, 0, 0)),
    Card("L2-20", 2, 2, "white", Cost(2, 5, 0, 0, 0)),
    Card("L2-21", 2, 1, "white", Cost(6, 0, 1, 0, 0)),
    Card("L2-22", 2, 3, "white", Cost(0, 6, 3, 0, 0)),
    Card("L2-23", 2, 2, "white", Cost(2, 3, 4, 0, 0)),
    Card("L2-24", 2, 1, "white", Cost(0, 0, 3, 0, 4)),
    Card("L2-25", 2, 1, "black", Cost(5, 0, 3, 0, 0)),
    Card("L2-26", 2, 2, "black", Cost(0, 5, 0, 2, 0)),
    Card("L2-27", 2, 1, "black", Cost(0, 0, 1, 6, 0)),
    Card("L2-28", 2, 3, "black", Cost(6, 0, 0, 3, 0)),
    Card("L2-29", 2, 2, "black", Cost(0, 3, 2, 4, 0)),
    Card("L2-30", 2, 1, "black", Cost(0, 4, 3, 0, 0)) >>

LEVEL_3_CARDS == <<
    Card("L3-01", 3, 3, "red",   Cost(0, 0, 0, 7, 3)),
    Card("L3-02", 3, 4, "red",   Cost(0, 7, 2, 0, 1)),
    Card("L3-03", 3, 5, "red",   Cost(0, 0, 6, 2, 4)),
    Card("L3-04", 3, 4, "red",   Cost(0, 2, 0, 8, 0)),
    Card("L3-05", 3, 3, "blue",  Cost(7, 0, 0, 0, 3)),
    Card("L3-06", 3, 4, "blue",  Cost(0, 0, 7, 2, 1)),
    Card("L3-07", 3, 5, "blue",  Cost(2, 0, 0, 6, 4)),
    Card("L3-08", 3, 4, "blue",  Cost(8, 0, 2, 0, 0)),
    Card("L3-09", 3, 3, "green", Cost(7, 0, 0, 3, 0)),
    Card("L3-10", 3, 4, "green", Cost(0, 7, 0, 1, 2)),
    Card("L3-11", 3, 5, "green", Cost(2, 0, 0, 4, 6)),
    Card("L3-12", 3, 4, "green", Cost(8, 0, 0, 0, 2)),
    Card("L3-13", 3, 3, "white", Cost(7, 0, 3, 0, 0)),
    Card("L3-14", 3, 4, "white", Cost(2, 7, 1, 0, 0)),
    Card("L3-15", 3, 5, "white", Cost(6, 2, 4, 0, 0)),
    Card("L3-16", 3, 4, "white", Cost(0, 8, 2, 0, 0)),
    Card("L3-17", 3, 3, "black", Cost(7, 0, 3, 0, 0)),
    Card("L3-18", 3, 4, "black", Cost(0, 7, 1, 2, 0)),
    Card("L3-19", 3, 5, "black", Cost(0, 2, 4, 6, 0)),
    Card("L3-20", 3, 4, "black", Cost(2, 8, 0, 0, 0)) >>

Noble(id, points, requirement) ==
    [id |-> id, points |-> points, requirement |-> requirement]

NOBLES == <<
    Noble("N-01", 3, Cost(3, 3, 3, 0, 0)),
    Noble("N-02", 3, Cost(0, 3, 0, 3, 3)),
    Noble("N-03", 3, Cost(0, 0, 0, 4, 4)),
    Noble("N-04", 3, Cost(0, 4, 0, 4, 0)),
    Noble("N-05", 3, Cost(0, 4, 4, 0, 0)),
    Noble("N-06", 3, Cost(0, 3, 3, 3, 0)),
    Noble("N-07", 3, Cost(3, 0, 0, 3, 3)),
    Noble("N-08", 3, Cost(3, 0, 3, 0, 3)),
    Noble("N-09", 3, Cost(4, 0, 0, 0, 4)),
    Noble("N-10", 3, Cost(4, 0, 4, 0, 0)) >>

AllCards == SeqSet(LEVEL_1_CARDS) \cup SeqSet(LEVEL_2_CARDS) \cup SeqSet(LEVEL_3_CARDS)
CardIds == {c.id : c \in AllCards}
NobleIds == {n.id : n \in SeqSet(NOBLES)}
Levels == {1, 2, 3}

\* a Card or Noble object, by its id (the state holds ids, as references)
ById(items) == [id \in {x.id : x \in items} |-> CHOOSE x \in items : x.id = id]
CardOf == ById(AllCards)
NobleOf == ById(SeqSet(NOBLES))

-----------------------------------------------------------------------------
(* types: GameAction.  One record shape for all six variants; the fields a
   variant does not carry are empty. *)

Action(type, playerIndex, gems, card, noble) ==
    [type |-> type, playerIndex |-> playerIndex, gems |-> gems, card |-> card,
     noble |-> noble]
TakeGems(p, gems) == Action("TAKE_GEMS", p, gems, "", "")
DiscardGems(p, gems) == Action("DISCARD_GEMS", p, gems, "", "")
ReserveCard(p, c) == Action("RESERVE_CARD", p, <<>>, c, "")
PurchaseCard(p, c) == Action("PURCHASE_CARD", p, <<>>, c, "")
ClaimNoble(p, n) == Action("CLAIM_NOBLE", p, <<>>, "", n)
EndTurn(p) == Action("END_TURN", p, <<>>, "", "")

\* pendingDiscard: undefined
NoDiscard == [playerIndex |-> -1, count |-> 0]
\* winner: undefined
NoWinner == -1

\* a reducer's outcome: the new state, or the Error it throws
Ok(s) == [ok |-> TRUE, error |-> "", state |-> s]
Throw(msg, s) == [ok |-> FALSE, error |-> msg, state |-> s]

-----------------------------------------------------------------------------
(* game/rules.ts: GameRules *)

countGems(gems) ==
    gems.red + gems.blue + gems.green + gems.white + gems.black + gems.gold

\* a variant without the check of the player's limit
canTakeGems_NoCap(playerGems, gemsToTake) == Len(gemsToTake) <= 3

canTakeGems(playerGems, gemsToTake) ==
    IF Len(gemsToTake) > 3 THEN FALSE
    ELSE countGems(playerGems) + Len(gemsToTake) <= MAX_GEMS_PER_PLAYER

\* goldNeeded accumulated over the five colours
goldNeededFor(playerGems, cost) ==
    SumColors([c \in ColorSet |->
                IF playerGems[c] < cost[c] THEN cost[c] - playerGems[c] ELSE 0])

canAfford(playerGems, cost) == goldNeededFor(playerGems, cost) <= playerGems.gold

canPurchaseCard(playerState, card) == canAfford(playerState.gems, card.cost)

isGameOver(s) == \E i \in DOMAIN s.players : s.players[i].points >= WINNING_POINTS

canReserveCard(playerState) == Len(playerState.reservedCards) < MAX_RESERVED_CARDS

canClaimNoble(playerState, noble) == canAfford(playerState.gems, noble.requirement)

calculateGemDiscount(playerState) ==
    [c \in ColorSet |->
        Cardinality({i \in DOMAIN playerState.purchasedCards :
                        CardOf[playerState.purchasedCards[i]].color = c})]

\* the nobles of the pool the player can claim, in pool order
getEligibleNobles(s, playerIndex) ==
    IF playerIndex \notin DOMAIN s.players THEN <<>>
    ELSE SelectSeq(s.nobles,
                   LAMBDA n : canClaimNoble(s.players[playerIndex], NobleOf[n]))

validateGemTake(gems, poolGems, playerGems) ==
    IF Len(gems) = 0 \/ Len(gems) > 3 THEN FALSE
    ELSE IF \E g \in SeqSet(gems) : poolGems[g] < Occ(gems, g) THEN FALSE
    ELSE canTakeGems(playerGems, gems)

-----------------------------------------------------------------------------
(* game/engine.ts *)

Player(isAI) ==
    [gems |-> NoGems, purchasedCards |-> <<>>, reservedCards |-> <<>>, points |-> 0,
     nobles |-> <<>>, isAI |-> isAI]

Ids(cards) == [i \in DOMAIN cards |-> cards[i].id]

\* shuffleDeck(deck), for one outcome of Math.random(): the cards named in front
\* come first, in that order, and the others follow in the order of the deck
shuffleDeck(deck, front) ==
    front \o SelectSeq(Ids(deck), LAMBDA id : id \notin SeqSet(front))

\* selectRandomNobles(nobles, count), for the shuffle that puts front first
selectRandomNobles(nobles, count, front) == SubSeq(shuffleDeck(nobles, front), 1, count)

\* splice(0, 4) of a shuffled deck: the dealt cards, and what stays in the deck
FirstFour(deck) == SubSeq(deck, 1, Min(4, Len(deck)))
AfterFour(deck) == SubSeq(deck, Min(4, Len(deck)) + 1, Len(deck))

\* initializeGame(playerCount), for one outcome of the shuffles: the three
\* shuffled decks and the selected nobles are given
initializeGame(playerCount, shuffled1, shuffled2, shuffled3, selectedNobles) ==
    [players |-> [i \in 0 .. playerCount - 1 |-> Player(i # 0)],
     currentPlayerIndex |-> 0,
     deck |-> <<AfterFour(shuffled1), AfterFour(shuffled2), AfterFour(shuffled3)>>,
     nobles |-> selectedNobles,
     displayedCards |-> <<FirstFour(shuffled1), FirstFour(shuffled2), FirstFour(shuffled3)>>,
     gemPool |-> [c \in AllColorSet |->
                     IF c = "gold" THEN GOLD_GEMS ELSE GEMS_PER_PLAYER_COUNT(playerCount)],
     gamePhase |-> "setup",
     winner |-> NoWinner,
     pendingDiscard |-> NoDiscard]

\* the per-colour counts of a gems array
gemCounts(gems) == [c \in AllColorSet |-> Occ(gems, c)]

addGems(gems, toAdd) == [c \in AllColorSet |-> gems[c] + toAdd[c]]

subtractGems(gems, toSubtract) == [c \in AllColorSet |-> Max(0, gems[c] - toSubtract[c])]

calculateGemsToSpend(playerGems, cost, discount) ==
    LET needed == [c \in ColorSet |-> cost[c] - discount[c]]
        goldNeeded ==
            SumColors([c \in ColorSet |->
                        IF playerGems[c] >= needed[c] THEN 0 ELSE needed[c] - playerGems[c]])
    IN  [c \in AllColorSet |->
            IF c = "gold" THEN goldNeeded
            ELSE IF playerGems[c] >= needed[c] THEN needed[c] ELSE playerGems[c]]

handleTakeGems(s, action) ==
    IF action.playerIndex \notin DOMAIN s.players
    THEN Throw("Invalid player index", s)
    ELSE IF ~validateGemTake(action.gems, s.gemPool, s.players[action.playerIndex].gems)
    THEN Throw("Cannot take those gems", s)
    ELSE LET n == gemCounts(action.gems)
             p == action.playerIndex
         IN  Ok([s EXCEPT !.players[p].gems = [c \in AllColorSet |-> @[c] + n[c]],
                          !.gemPool = [c \in AllColorSet |-> @[c] - n[c]]])

\* a variant without the check that the player holds the gems named
handleDiscardGems_Unheld(s, action) ==
    LET discardCounts == gemCounts(action.gems)
        p == action.playerIndex
    IN  IF \/ p \notin DOMAIN s.players
           \/ s.pendingDiscard = NoDiscard
           \/ s.pendingDiscard.playerIndex # p
           \/ Len(action.gems) # s.pendingDiscard.count
        THEN Throw("Invalid discard", s)
        ELSE Ok([s EXCEPT
                    !.players[p].gems = [c \in AllColorSet |-> @[c] - discardCounts[c]],
                    !.gemPool = [c \in AllColorSet |-> @[c] + discardCounts[c]],
                    !.pendingDiscard = NoDiscard])

handleDiscardGems(s, action) ==
    IF action.playerIndex \notin DOMAIN s.players
    THEN Throw("Invalid player index", s)
    ELSE IF s.pendingDiscard = NoDiscard
            \/ s.pendingDiscard.playerIndex # action.playerIndex
    THEN Throw("No pending discard for this player", s)
    ELSE IF Len(action.gems) # s.pendingDiscard.count
    THEN Throw("Invalid discard count", s)
    ELSE LET discardCounts == gemCounts(action.gems)
             p == action.playerIndex
         IN  IF \E c \in AllColorSet : s.players[p].gems[c] < discardCounts[c]
             THEN Throw("Cannot discard gems not owned", s)
             ELSE Ok([s EXCEPT
                        !.players[p].gems = [c \in AllColorSet |-> @[c] - discardCounts[c]],
                        !.gemPool = [c \in AllColorSet |-> @[c] + discardCounts[c]],
                        !.pendingDiscard = NoDiscard])

\* a variant that leaves the card in the row
refill_Keep(row, deck, cardId) ==
    IF deck # <<>> THEN Append(row, Head(deck)) ELSE row

\* a variant that draws no card
refill_NoDraw(row, deck, cardId) == Without(row, cardId)

\* the displayed row after one card left it: the top of the deck is appended
refill(row, deck, cardId) ==
    IF deck # <<>> THEN Append(Without(row, cardId), Head(deck)) ELSE Without(row, cardId)

\* handleReserveCard for player p and a card of level cardLevel
\* a variant without the cap on reserved cards
reserveCard_NoCap(s, p, cardId, cardLevel) ==
    IF cardId \notin SeqSet(s.displayedCards[cardLevel])
    THEN Throw("Card is not in displayed cards", s)
    ELSE Ok([s EXCEPT
               !.displayedCards[cardLevel] = refill(@, s.deck[cardLevel], cardId),
               !.deck[cardLevel] = Rest(@),
               !.players[p].reservedCards = Append(@, cardId),
               !.players[p].gems.gold = @ + 1,
               !.gemPool.gold = Max(0, @ - 1)])

reserveCard(s, p, cardId, cardLevel) ==
    IF Len(s.players[p].reservedCards) >= MAX_RESERVED_CARDS
    THEN Throw("Maximum reserved cards reached", s)
    ELSE IF cardId \notin SeqSet(s.displayedCards[cardLevel])
    THEN Throw("Card is not in displayed cards", s)
    ELSE Ok([s EXCEPT
               !.displayedCards[cardLevel] = refill(@, s.deck[cardLevel], cardId),
               !.deck[cardLevel] = Rest(@),
               !.players[p].reservedCards = Append(@, cardId),
               !.players[p].gems.gold = @ + 1,
               !.gemPool.gold = Max(0, @ - 1)])

handleReserveCard(s, action) ==
    IF action.playerIndex \notin DOMAIN s.players
    THEN Throw("Invalid player index", s)
    ELSE reserveCard(s, action.playerIndex, action.card, CardOf[action.card].level)

\* a variant that does not add the points of the card
purchaseCard_NoPoints(s, p, card, discount) ==
    LET playerState == s.players[p]
        levelKey == card.level
        gemsToSpend == calculateGemsToSpend(playerState.gems, card.cost, discount)
        cardFoundInDisplayed == card.id \in SeqSet(s.displayedCards[levelKey])
        cardFoundInReserved ==
            ~cardFoundInDisplayed /\ card.id \in SeqSet(playerState.reservedCards)
    IN  IF ~canPurchaseCard(playerState, card)
        THEN Throw("Cannot afford this card", s)
        ELSE IF ~cardFoundInDisplayed /\ ~cardFoundInReserved
        THEN Throw("Card not found in displayed or reserved cards", s)
        ELSE Ok([s EXCEPT
                   !.displayedCards[levelKey] =
                       IF cardFoundInDisplayed
                       THEN refill(@, s.deck[levelKey], card.id) ELSE @,
                   !.deck[levelKey] = IF cardFoundInDisplayed THEN Rest(@) ELSE @,
                   !.players[p].purchasedCards = Append(@, card.id),
                   !.players[p].reservedCards =
                       IF cardFoundInReserved THEN Without(@, card.id) ELSE @,
                   !.players[p].gems = subtractGems(@, gemsToSpend),
                   !.gemPool = addGems(@, gemsToSpend)])

\* handlePurchaseCard for player p, the card the action names and the discount
\* of the player's purchased cards
purchaseCard(s, p, card, discount) ==
    LET playerState == s.players[p]
        levelKey == card.level
        gemsToSpend == calculateGemsToSpend(playerState.gems, card.cost, discount)
        cardFoundInDisplayed == card.id \in SeqSet(s.displayedCards[levelKey])
        cardFoundInReserved ==
            ~cardFoundInDisplayed /\ card.id \in SeqSet(playerState.reservedCards)
    IN  IF ~canPurchaseCard(playerState, card)
        THEN Throw("Cannot afford this card", s)
        ELSE IF ~cardFoundInDisplayed /\ ~cardFoundInReserved
        THEN Throw("Card not found in displayed or reserved cards", s)
        ELSE Ok([s EXCEPT
                   !.displayedCards[levelKey] =
                       IF cardFoundInDisplayed
                       THEN refill(@, s.deck[levelKey], card.id) ELSE @,
                   !.deck[levelKey] = IF cardFoundInDisplayed THEN Rest(@) ELSE @,
                   !.players[p].purchasedCards = Append(@, card.id),
                   !.players[p].reservedCards =
                       IF cardFoundInReserved THEN Without(@, card.id) ELSE @,
                   !.players[p].gems = subtractGems(@, gemsToSpend),
                   !.players[p].points = @ + card.points,
                   !.gemPool = addGems(@, gemsToSpend)])

handlePurchaseCard(s, action) ==
    IF action.playerIndex \notin DOMAIN s.players
    THEN Throw("Invalid player index", s)
    ELSE purchaseCard(s, action.playerIndex, CardOf[action.card],
                      calculateGemDiscount(s.players[action.playerIndex]))

\* a variant that leaves the noble in the pool
claimNoble_Keep(s, p, noble) ==
    IF ~canClaimNoble(s.players[p], noble)
    THEN Throw("Cannot claim this noble", s)
    ELSE Ok([s EXCEPT
               !.players[p].nobles = Append(@, noble.id),
               !.players[p].points = @ + noble.points])

\* handleClaimNoble for player p and the noble the action names
claimNoble(s, p, noble) ==
    IF ~canClaimNoble(s.players[p], noble)
    THEN Throw("Cannot claim this noble", s)
    ELSE Ok([s EXCEPT
               !.players[p].nobles = Append(@, noble.id),
               !.players[p].points = @ + noble.points,
               !.nobles = Without(@, noble.id)])

handleClaimNoble(s, action) ==
    IF action.playerIndex \notin DOMAIN s.players
    THEN Throw("Invalid player index", s)
    ELSE claimNoble(s, action.playerIndex, NobleOf[action.noble])

\* the loop of handleEndTurn over the eligible nobles: claimRest goes on after
\* one claim gave r
RECURSIVE claimEach(_, _, _)
claimRest(r, playerIndex, nobles) ==
    IF r.ok THEN claimEach(r.state, playerIndex, nobles) ELSE r

claimEach(s, playerIndex, nobles) ==
    IF nobles = <<>> THEN Ok(s)
    ELSE claimRest(handleClaimNoble(s, ClaimNoble(playerIndex, Head(nobles))),
                   playerIndex, Tail(nobles))

\* a variant in which the end of a round also leaves the active phase for setup
phaseAfterEndTurn_Toggle(updatedState, nextPlayerIndex) ==
    IF isGameOver(updatedState) THEN "finished"
    ELSE IF nextPlayerIndex = 0
    THEN IF updatedState.gamePhase = "setup" THEN "active" ELSE "setup"
    ELSE updatedState.gamePhase

\* the phase handleEndTurn leaves
phaseAfterEndTurn(updatedState, nextPlayerIndex) ==
    IF isGameOver(updatedState) THEN "finished"
    ELSE IF nextPlayerIndex = 0 /\ updatedState.gamePhase = "setup" THEN "active"
    ELSE updatedState.gamePhase

\* handleEndTurn after its loop over the eligible nobles gave r
advanceTurn(s, action, r) ==
    IF ~r.ok THEN Throw(r.error, s)
    ELSE LET updatedState == r.state
             nextPlayerIndex ==
                 (action.playerIndex + 1) % Cardinality(DOMAIN updatedState.players)
         IN  Ok([updatedState EXCEPT
                   !.currentPlayerIndex = nextPlayerIndex,
                   !.gamePhase = phaseAfterEndTurn(updatedState, nextPlayerIndex),
                   !.pendingDiscard = NoDiscard])

handleEndTurn(s, action) ==
    IF s.pendingDiscard # NoDiscard
    THEN Throw("Cannot end turn while discard is pending", s)
    ELSE advanceTurn(s, action,
                     claimEach(s, action.playerIndex,
                               getEligibleNobles(s, action.playerIndex)))

gameReducer(s, action) ==
    CASE action.type = "TAKE_GEMS" -> handleTakeGems(s, action)
      [] action.type = "DISCARD_GEMS" -> handleDiscardGems(s, action)
      [] action.type = "RESERVE_CARD" -> handleReserveCard(s, action)
      [] action.type = "PURCHASE_CARD" -> handlePurchaseCard(s, action)
      [] action.type = "CLAIM_NOBLE" -> handleClaimNoble(s, action)
      [] action.type = "END_TURN" -> handleEndTurn(s, action)

-----------------------------------------------------------------------------
(* game/turnController.ts: TurnController *)

numPlayers(s) == Cardinality(DOMAIN s.players)

advanceToNextPlayer(s) ==
    [s EXCEPT !.currentPlayerIndex = (s.currentPlayerIndex + 1) % numPlayers(s)]

\* the callback of players.reduce, folded over the players from index i on
RECURSIVE reduceBest(_, _, _)
reduceBest(s, best, i) ==
    IF i \notin DOMAIN s.players THEN best
    ELSE reduceBest(s, IF s.players[i].points > s.players[best].points THEN i ELSE best,
                    i + 1)

\* a variant whose callback prefers the current player on equal points
highestPoints_LastBest(s) ==
    CHOOSE i \in DOMAIN s.players :
        /\ \A j \in DOMAIN s.players : s.players[j].points <= s.players[i].points
        /\ \A j \in DOMAIN s.players : j > i => s.players[j].points < s.players[i].points

\* players.reduce((best, current) => current.points > best.points ? current : best),
\* without an initial value: the fold starts from the first player
highestPoints(s) == reduceBest(s, 0, 1)

\* players.findIndex(p => p.points >= WINNING_POINTS)
firstAtWinningPoints(s) ==
    IF isGameOver(s)
    THEN CHOOSE i \in DOMAIN s.players :
            /\ s.players[i].points >= WINNING_POINTS
            /\ \A j \in DOMAIN s.players : j < i => s.players[j].points < WINNING_POINTS
    ELSE -1

\* the while loop of checkEndGame that hands out the final turns
RECURSIVE finalRound(_, _, _)
finalRound(s, triggerIndex, playersRemaining) ==
    IF playersRemaining > 0
    THEN LET n == advanceToNextPlayer(s)
         IN  IF n.currentPlayerIndex = triggerIndex THEN n
             ELSE finalRound(n, triggerIndex, playersRemaining - 1)
    ELSE s

checkEndGame(s) ==
    IF isGameOver(s) /\ s.gamePhase = "active"
    THEN LET triggerIndex == s.currentPlayerIndex
             newState == finalRound([s EXCEPT !.gamePhase = "endGame"], triggerIndex,
                                    numPlayers(s) - 1)
         IN  IF newState.currentPlayerIndex = triggerIndex
             THEN [newState EXCEPT !.gamePhase = "finished",
                                   !.winner = highestPoints(newState)]
             ELSE newState
    ELSE IF s.gamePhase = "endGame" /\ s.currentPlayerIndex = firstAtWinningPoints(s)
    THEN [s EXCEPT !.gamePhase = "finished", !.winner = highestPoints(s)]
    ELSE s

\* the colours of the pool with at least one gem, in the order of `colors`
availableGems(s) == SelectSeq(Colors, LAMBDA c : s.gemPool[c] > 0)

\* the index triples i < j < k the three nested loops of getValidGemTakes visit
IndexTriples ==
    {t \in (1 .. 5) \X (1 .. 5) \X (1 .. 5) : t[1] < t[2] /\ t[2] < t[3]}

\* a variant that offers two of a colour from a pool count of 2 on
getValidGemTakes_TwoOfAny(s, playerIndex) ==
    LET avail == availableGems(s)
        n == Len(avail)
        twoSame == {<<avail[i], avail[i]>> : i \in {j \in 1 .. n : s.gemPool[avail[j]] >= 2}}
        three == {<<avail[t[1]], avail[t[2]], avail[t[3]]>> :
                    t \in {u \in IndexTriples : u[3] <= n}}
    IN  {TakeGems(playerIndex, gems) :
            gems \in {g \in twoSame \cup three :
                        validateGemTake(g, s.gemPool, s.players[playerIndex].gems)}}

getValidGemTakes(s, playerIndex) ==
    LET player == s.players[playerIndex]
        avail == availableGems(s)
        n == Len(avail)
        valid(gems) == validateGemTake(gems, s.gemPool, player.gems)
        twoSame == {<<avail[i], avail[i]>> : i \in {j \in 1 .. n : s.gemPool[avail[j]] >= 4}}
        three == {<<avail[t[1]], avail[t[2]], avail[t[3]]>> :
                    t \in {u \in IndexTriples : u[3] <= n}}
        fewer == IF n = 2 THEN {<<avail[1], avail[2]>>, <<avail[1]>>, <<avail[2]>>}
                 ELSE IF n = 1 THEN {<<avail[1]>>}
                 ELSE {}
    IN  {TakeGems(playerIndex, gems) :
            gems \in {g \in twoSame \cup (IF n >= 3 THEN three ELSE fewer) : valid(g)}}

\* [...level1, ...level2, ...level3] of the displayed cards, as a set
allDisplayed(s) == UNION {SeqSet(s.displayedCards[l]) : l \in Levels}

getValidReservations(s, playerIndex) ==
    IF Len(s.players[playerIndex].reservedCards) >= MAX_RESERVED_CARDS THEN {}
    ELSE {ReserveCard(playerIndex, c) : c \in allDisplayed(s)}

getValidPurchases(s, playerIndex) ==
    LET player == s.players[playerIndex]
    IN  {PurchaseCard(playerIndex, c) :
            c \in {d \in allDisplayed(s) \cup SeqSet(player.reservedCards) :
                        canPurchaseCard(player, CardOf[d])}}

getValidNobleClaims(s, playerIndex) ==
    LET player == s.players[playerIndex]
    IN  {ClaimNoble(playerIndex, n) :
            n \in {m \in SeqSet(s.nobles) :
                        /\ m \notin SeqSet(player.nobles)
                        /\ canAfford(player.gems, NobleOf[m].requirement)}}

\* the array getValidActions returns, as a set
getValidActions(s, playerIndex) ==
    IF s.pendingDiscard # NoDiscard
    THEN IF s.pendingDiscard.playerIndex # playerIndex THEN {}
         ELSE {DiscardGems(playerIndex, <<>>)}
    ELSE {EndTurn(playerIndex)}
            \cup getValidGemTakes(s, playerIndex)
            \cup getValidReservations(s, playerIndex)
            \cup getValidPurchases(s, playerIndex)
            \cup getValidNobleClaims(s, playerIndex)

\* the comparison isActionValidAgainstList makes between two actions
sameAction(validAction, action) ==
    /\ validAction.type = action.type
    /\ validAction.playerIndex = action.playerIndex
    /\ CASE action.type = "TAKE_GEMS" -> gemCounts(validAction.gems) = gemCounts(action.gems)
         [] action.type \in {"RESERVE_CARD", "PURCHASE_CARD"} -> validAction.card = action.card
         [] action.type = "CLAIM_NOBLE" -> validAction.noble = action.noble
         [] OTHER -> TRUE

isActionValidAgainstList(action, validActions) ==
    \E validAction \in validActions : sameAction(validAction, action)

isActionValid(s, action, validActions) ==
    IF s.pendingDiscard # NoDiscard /\ action.type # "DISCARD_GEMS" THEN FALSE
    ELSE IF action.type = "DISCARD_GEMS"
    THEN /\ s.pendingDiscard # NoDiscard
         /\ s.pendingDiscard.playerIndex = action.playerIndex
         /\ Len(action.gems) = s.pendingDiscard.count
    ELSE isActionValidAgainstList(action, validActions)

\* a variant that never installs the obligation
withPendingDiscard_Never(s, playerIndex) == s

\* a variant that installs the obligation from a total of MAX_GEMS_PER_PLAYER on
withPendingDiscard_AtCap(s, playerIndex) ==
    [s EXCEPT !.pendingDiscard =
        [playerIndex |-> playerIndex,
         count |-> Max(0, countGems(s.players[playerIndex].gems) - MAX_GEMS_PER_PLAYER)]]

\* the pendingDiscard obligation installed after an action that is not END_TURN
withPendingDiscard(s, playerIndex) ==
    LET excess == countGems(s.players[playerIndex].gems) - MAX_GEMS_PER_PLAYER
    IN  IF excess > 0
        THEN [s EXCEPT !.pendingDiscard = [playerIndex |-> playerIndex, count |-> excess]]
        ELSE s

\* whether applyActionAndEndTurn applies END_TURN after the action gave newState
endsTurnAfter(action, newState) ==
    IF action.type = "DISCARD_GEMS" THEN newState.pendingDiscard = NoDiscard
    ELSE IF action.type # "END_TURN"
    THEN countGems(newState.players[action.playerIndex].gems) <= MAX_GEMS_PER_PLAYER
    ELSE FALSE

\* applyActionAndEndTurn after its first call of the reducer gave r
endTurnAfter(action, r) ==
    IF ~r.ok THEN r
    ELSE IF endsTurnAfter(action, r.state)
    THEN gameReducer(r.state, EndTurn(action.playerIndex))
    ELSE IF action.type \notin {"DISCARD_GEMS", "END_TURN"}
    THEN Ok(withPendingDiscard(r.state, action.playerIndex))
    ELSE r

applyActionAndEndTurn(s, action) == endTurnAfter(action, gameReducer(s, action))

\* counts.sort(...): the five colours by falling count (a stable sort), gold last
discardOrder(gems) ==
    LET pos(c) == CHOOSE i \in DOMAIN Colors : Colors[i] = c
        before(a, b) == gems[a] > gems[b] \/ (gems[a] = gems[b] /\ pos(a) < pos(b))
        rank(c) == 1 + Cardinality({d \in ColorSet : before(d, c)})
    IN  [i \in 1 .. 6 |-> IF i = 6 THEN "gold" ELSE CHOOSE c \in ColorSet : rank(c) = i]

RECURSIVE gemsToDiscard(_, _, _, _)
gemsToDiscard(gems, order, i, remaining) ==
    IF remaining = 0 \/ i > Len(order) THEN <<>>
    ELSE LET take == Min(gems[order[i]], remaining)
         IN  [k \in 1 .. take |-> order[i]]
                \o gemsToDiscard(gems, order, i + 1, remaining - take)

buildAIDiscardAction(s, playerIndex) ==
    DiscardGems(playerIndex,
                gemsToDiscard(s.players[playerIndex].gems,
                              discardOrder(s.players[playerIndex].gems), 1,
                              s.pendingDiscard.count))

\* decideAction threw: what stands for the proposal in that case
Thrown == Action("", -1, <<>>, "", "")

\* executeTurn after the reducer gave r, up to the call of executeAITurn
applied(s, action, r) ==
    IF ~r.ok THEN [outcome |-> "reducerError", error |-> r.error, state |-> s]
    ELSE IF action.type # "END_TURN"
    THEN [outcome |-> "accepted", error |-> "",
          state |-> withPendingDiscard(r.state, action.playerIndex)]
    ELSE [outcome |-> "accepted", error |-> "", state |-> checkEndGame(r.state)]

\* a variant without the check of the player index
executeTurn_AnyPlayer(s, action) ==
    IF ~isActionValid(s, action, getValidActions(s, action.playerIndex))
    THEN [outcome |-> "invalidAction", error |-> "Invalid action", state |-> s]
    ELSE applied(s, action, gameReducer(s, action))

\* executeTurn, up to its call of executeAITurn
executeTurn(s, action) ==
    IF action.playerIndex # s.currentPlayerIndex
    THEN [outcome |-> "wrongPlayer", error |-> "Cannot execute action for player", state |-> s]
    ELSE IF ~isActionValid(s, action, getValidActions(s, action.playerIndex))
    THEN [outcome |-> "invalidAction", error |-> "Invalid action", state |-> s]
    ELSE applied(s, action, gameReducer(s, action))

\* the condition under which the loop of executeAITurn runs its body once more
aiLoopRuns(s) ==
    /\ s.gamePhase \in {"setup", "active", "endGame"}
    /\ s.players[s.currentPlayerIndex].isAI

aiMustDiscard(s) ==
    /\ s.pendingDiscard # NoDiscard
    /\ s.pendingDiscard.playerIndex = s.currentPlayerIndex

\* the branches of the loop body of executeAITurn
endGameChecked(r) == IF r.ok THEN Ok(checkEndGame(r.state)) ELSE r

aiDiscardTurn(s) ==
    endGameChecked(applyActionAndEndTurn(s, buildAIDiscardAction(s, s.currentPlayerIndex)))

\* the action the AI player takes: what decideAction proposed, or END_TURN when
\* decideAction threw or its proposal is not valid
aiActionOf(s, proposal) ==
    LET cur == s.currentPlayerIndex
        decided == IF proposal = Thrown THEN EndTurn(cur) ELSE proposal
    IN  IF isActionValid(s, decided, getValidActions(s, cur)) THEN decided ELSE EndTurn(cur)

aiDecidedTurn(s, proposal) ==
    endGameChecked(applyActionAndEndTurn(s, aiActionOf(s, proposal)))

-----------------------------------------------------------------------------
(* The actions a caller may submit to executeTurn, and what an AI may propose *)

colorIndex(c) == CHOOSE i \in DOMAIN AllColors : AllColors[i] = c

\* the gem selections of 1 to 3 gems, one sequence per multiset
GemSelections ==
    {<<a>> : a \in AllColorSet}
        \cup {t \in AllColorSet \X AllColorSet : colorIndex(t[1]) <= colorIndex(t[2])}
        \cup {t \in AllColorSet \X AllColorSet \X AllColorSet :
                colorIndex(t[1]) <= colorIndex(t[2]) /\ colorIndex(t[2]) <= colorIndex(t[3])}

\* the selections a caller tries to take: one or two of a colour, two or three
\* different colours, or gold
TakeSelections ==
    {g \in GemSelections :
        \/ "gold" \notin SeqSet(g) /\ (Len(g) <= 2 \/ Cardinality(SeqSet(g)) = 3)
        \/ g = <<"gold">>}

\* the selections a caller tries to discard: of the pending count, or one more
DiscardSelections(s) ==
    IF s.pendingDiscard = NoDiscard THEN {<<"red">>}
    ELSE {g \in GemSelections :
            Len(g) \in {s.pendingDiscard.count, s.pendingDiscard.count + 1}}

reservedBy(s, p) == SeqSet(s.players[p].reservedCards)
deckTops(s) == {Head(s.deck[l]) : l \in {k \in Levels : s.deck[k] # <<>>}}

\* the cards a caller names: those on the table, in any player's reserve, or on
\* top of a deck
NamedCards(s) ==
    allDisplayed(s) \cup deckTops(s) \cup UNION {reservedBy(s, p) : p \in DOMAIN s.players}

ActionsOf(s, p) ==
    {EndTurn(p)}
        \cup {TakeGems(p, g) : g \in TakeSelections}
        \cup {DiscardGems(p, g) : g \in DiscardSelections(s)}
        \cup {ReserveCard(p, c) : c \in NamedCards(s)}
        \cup {PurchaseCard(p, c) : c \in NamedCards(s)}
        \cup {ClaimNoble(p, n) : n \in NobleIds}

\* what a caller submits: any action of the current player, or an END_TURN or a
\* take in the name of a player whose turn it is not
Submitted(s) ==
    ActionsOf(s, s.currentPlayerIndex)
        \cup {EndTurn(q) : q \in DOMAIN s.players}
        \cup {TakeGems(q, <<"red", "blue", "green">>) : q \in DOMAIN s.players}

\* decideAction returns a TAKE_GEMS, RESERVE_CARD, PURCHASE_CARD or END_TURN of its
\* own player, chosen by heuristics and Math.random(): any of them may come
Proposals(s) ==
    {a \in ActionsOf(s, s.currentPlayerIndex) :
        a.type \in {"TAKE_GEMS", "RESERVE_CARD", "PURCHASE_CARD", "END_TURN"}}
        \cup {Thrown}

-----------------------------------------------------------------------------
(* History kept for the properties *)

\* trigger: the player whose points first reached WINNING_POINTS in the active
\* phase (-1: none yet); turns[p + 1]: the turns player p has ended since then,
\* counted up to 2; played: a step was accepted in the finished phase
NoHist == [trigger |-> -1, turns |-> <<0, 0, 0, 0>>, played |-> FALSE]

\* pre, post: the game before and after the step of player actor; ended: the
\* step applied END_TURN for actor
histAfter(h, pre, post, actor, ended) ==
    LET trigger == IF h.trigger = -1 /\ pre.gamePhase = "active"
                        /\ ~isGameOver(pre) /\ isGameOver(post)
                   THEN actor ELSE h.trigger
    IN  [trigger |-> trigger,
         turns |-> IF trigger # -1 /\ ended /\ pre.gamePhase # "finished"
                   THEN [h.turns EXCEPT ![actor + 1] = Min(2, @ + 1)]
                   ELSE h.turns,
         played |-> h.played \/ pre.gamePhase = "finished"]

\* last: the executeTurn call in flight or just settled.  offered: its action was
\* an element of getValidActions(state, action.playerIndex); misuse: its action
\* was for a player other than the current one, or matched no element of
\* getValidActions for the current player
NoLast == [type |-> "", offered |-> FALSE, misuse |-> FALSE, outcome |-> "none",
           error |-> ""]
NoSaved == [state |-> <<>>, hist |-> NoHist]

-----------------------------------------------------------------------------
(* Initial states *)

\* initializeGame(playerCount) for the shuffles that put these cards and nobles first
NewGame(playerCount, front1, front2, front3, frontNobles) ==
    initializeGame(playerCount,
                   shuffleDeck(LEVEL_1_CARDS, front1),
                   shuffleDeck(LEVEL_2_CARDS, front2),
                   shuffleDeck(LEVEL_3_CARDS, front3),
                   selectRandomNobles(NOBLES, playerCount + 1, frontNobles))

Fresh2 ==
    NewGame(2, <<"L1-07", "L1-02", "L1-32", "L1-08">>, <<>>, <<>>, <<"N-01", "N-07", "N-08">>)

\* a game in progress is given by the calls and the AI decisions that led to it:
\* Call(action) is an accepted executeTurn(state, action), Ai(proposal) one body of
\* the loop of executeAITurn in which decideAction returned proposal
Call(action) == <<"call", action>>
Ai(proposal) == <<"ai", proposal>>

\* what stands for the game when a script cannot be played
Stuck == <<>>

\* what executeTurn returned, as a reducer's outcome
returned(r) == IF r.outcome = "accepted" THEN Ok(r.state) ELSE Throw(r.error, r.state)

\* one step of a script, played in state s
Played(s, step) ==
    IF (step[1] = "call") = aiLoopRuns(s) THEN Throw("not this player's step", s)
    ELSE IF step[1] = "call" THEN returned(executeTurn(s, step[2]))
    ELSE IF aiMustDiscard(s) THEN aiDiscardTurn(s)
    ELSE aiDecidedTurn(s, step[2])

\* the game after the script: ReplayRest goes on after one step gave r
RECURSIVE Replay(_, _)
ReplayRest(r, script) == IF r.ok THEN Replay(r.state, script) ELSE Stuck

Replay(s, script) ==
    IF script = <<>> \/ s = Stuck THEN s
    ELSE ReplayRest(Played(s, Head(script)), Tail(script))

\* the script of a two-player game in which the human player has, within one
\* turn, taken gems four times and bought L1-07: 9 gems in hand, no red left in
\* the pool
MidGame2 ==
    <<Call(TakeGems(0, <<"red", "blue", "green">>)),
      Call(TakeGems(0, <<"red", "blue", "green">>)),
      Call(PurchaseCard(0, "L1-07")),
      Call(TakeGems(0, <<"red", "blue", "green">>)),
      Call(TakeGems(0, <<"red", "blue", "green">>))>>

\* the script of the same game, the human player having then reserved L1-08: 10
\* gems in hand, one of them gold
AtCap2 == MidGame2 \o <<Call(ReserveCard(0, "L1-08"))>>

Fresh3 ==
    NewGame(3, <<"L1-32", "L1-08", "L1-24", "L1-37", "L1-03", "L1-35", "L1-11">>, <<>>, <<>>,
            <<"N-07", "N-08", "N-09", "N-01">>)

\* one round of a three-player game: the human player ends the turn, then the two
\* AI players decide
Round(proposal1, proposal2) == <<Call(EndTurn(0)), Ai(proposal1), Ai(proposal2)>>

\* the script of a three-player game of fourteen rounds: player 2 then holds 8
\* gems, five cards and three nobles, 14 points in all; player 1 holds 10 gems and
\* three reserved cards; the human player has just reserved two cards, and the
\* pool has no gold
LateGame3 ==
    Round(EndTurn(1), TakeGems(2, <<"red", "red">>))
    \o Round(EndTurn(1), TakeGems(2, <<"black", "black">>))
    \o Round(EndTurn(1), TakeGems(2, <<"red", "blue", "black">>))
    \o Round(EndTurn(1), ReserveCard(2, "L1-32"))
    \o Round(EndTurn(1), ReserveCard(2, "L1-08"))
    \o Round(EndTurn(1), ReserveCard(2, "L1-24"))
    \o Round(ReserveCard(1, "L2-01"), PurchaseCard(2, "L1-32"))
    \o Round(ReserveCard(1, "L2-02"), TakeGems(2, <<"black", "black">>))
    \o Round(ReserveCard(1, "L2-03"), PurchaseCard(2, "L1-08"))
    \o Round(TakeGems(1, <<"black", "black">>), TakeGems(2, <<"red", "blue", "green">>))
    \o Round(TakeGems(1, <<"green", "green">>), PurchaseCard(2, "L1-24"))
    \o Round(TakeGems(1, <<"red", "blue", "black">>),
             TakeGems(2, <<"blue", "green", "white">>))
    \o Round(EndTurn(1), PurchaseCard(2, "L1-35"))
    \o Round(EndTurn(1), PurchaseCard(2, "L1-37"))
    \o <<Call(ReserveCard(0, "L3-01")), Call(ReserveCard(0, "L3-02"))>>

\* the same game with the parts of the two AI players exchanged: player 1 holds
\* 8 gems, five cards and three nobles, 14 points in all
LateGame3First ==
    Round(TakeGems(1, <<"red", "red">>), EndTurn(2))
    \o Round(TakeGems(1, <<"black", "black">>), EndTurn(2))
    \o Round(TakeGems(1, <<"red", "blue", "black">>), EndTurn(2))
    \o Round(ReserveCard(1, "L1-32"), EndTurn(2))
    \o Round(ReserveCard(1, "L1-08"), EndTurn(2))
    \o Round(ReserveCard(1, "L1-24"), EndTurn(2))
    \o Round(PurchaseCard(1, "L1-32"), ReserveCard(2, "L2-01"))
    \o Round(TakeGems(1, <<"black", "black">>), ReserveCard(2, "L2-02"))
    \o Round(PurchaseCard(1, "L1-08"), ReserveCard(2, "L2-03"))
    \o Round(TakeGems(1, <<"red", "blue", "green">>), TakeGems(2, <<"black", "black">>))
    \o Round(PurchaseCard(1, "L1-24"), TakeGems(2, <<"green", "green">>))
    \o Round(TakeGems(1, <<"blue", "green", "white">>),
             TakeGems(2, <<"red", "blue", "black">>))
    \o Round(PurchaseCard(1, "L1-35"), EndTurn(2))
    \o Round(PurchaseCard(1, "L1-37"), EndTurn(2))
    \o <<Call(ReserveCard(0, "L3-01")), Call(ReserveCard(0, "L3-02"))>>

\* another outcome of the shuffles: the fifth card of level 2 is L2-19
Fresh3Gold ==
    NewGame(3, <<"L1-32", "L1-08", "L1-24", "L1-37", "L1-03", "L1-35", "L1-11">>,
            <<"L2-01", "L2-02", "L2-03", "L2-04", "L2-19">>, <<>>,
            <<"N-07", "N-08", "N-09", "N-01">>)

\* the fourteen rounds of LateGame3 and two more, in which player 2 reserves
\* two cards: player 2 then has 14 points and holds 10 gems, two of them gold
LateGame3Gold ==
    SubSeq(LateGame3, 1, 42)
    \o Round(EndTurn(1), ReserveCard(2, "L1-03"))
    \o Round(EndTurn(1), ReserveCard(2, "L1-11"))

\* the games the model starts from, each given by a new game, the script played
\* in it and the AI players the controller was given: a new game, a game whose
\* controller was given no AI player, a game whose human player holds 10 gems,
\* and late games, in which the second or the first AI player is near the end
Candidates ==
    {[game |-> Replay(c.start, c.script), ai |-> c.ai] :
        c \in {[start |-> Fresh2, script |-> <<>>, ai |-> {1}],
               [start |-> Fresh2, script |-> MidGame2, ai |-> {}],
               [start |-> Fresh2, script |-> AtCap2, ai |-> {1}],
               [start |-> Fresh3, script |-> LateGame3, ai |-> {1, 2}],
               [start |-> Fresh3, script |-> LateGame3First, ai |-> {1, 2}],
               [start |-> Fresh3Gold, script |-> LateGame3Gold, ai |-> {1, 2}]}}

\* the candidates whose script can be played to its end, the call returned
Scenarios == {sc \in Candidates : sc.game # Stuck /\ ~aiLoopRuns(sc.game)}

Init ==
    /\ \E sc \in Scenarios : state = sc.game /\ aiPlayers = sc.ai
    /\ saved = NoSaved
    /\ pc = "idle"
    /\ last = NoLast
    /\ hist = NoHist
    /\ calls = 0

-----------------------------------------------------------------------------
(* Steps *)

\* where executeAITurn stands after a loop body, or at its entry
\* a variant in which the loop ends after one body
pcAfter_OneTurn(s) == "returned"

pcAfter(s) == IF aiLoopRuns(s) THEN "ai" ELSE "returned"

\* what is kept of the call executeTurn(state, action): validActions is
\* getValidActions for the player the action names, validNow for the current one
callOf(action, validActions, validNow) ==
    [type |-> action.type,
     offered |-> action \in validActions,
     misuse |-> \/ action.playerIndex # state.currentPlayerIndex
                \/ ~isActionValidAgainstList(action, validNow),
     outcome |-> "none",
     error |-> ""]

\* the call gave r: it threw, or it returns r.state after the AI chain, if any
Called(action, r) ==
    LET entersChain == /\ action.type = "END_TURN"
                       /\ r.state.gamePhase # "finished"
                       /\ aiLoopRuns(r.state)
    IN  IF r.outcome # "accepted"
        THEN /\ pc' = "threw"
             /\ UNCHANGED <<state, saved, hist, calls>>
        ELSE /\ state' = r.state
             /\ hist' = histAfter(hist, state, r.state, action.playerIndex,
                                  action.type = "END_TURN")
             /\ calls' = calls + 1
             /\ pc' = IF entersChain THEN "ai" ELSE "returned"
             /\ saved' = IF entersChain THEN [state |-> state, hist |-> hist]
                         ELSE NoSaved

\* the call gave r, and call is what is kept of it
CallWith(action, r, call) ==
    /\ last' = [call EXCEPT !.outcome = r.outcome, !.error = r.error]
    /\ Called(action, r)

\* a caller awaits executeTurn(state, action)
ExecuteTurn(action) ==
    /\ pc = "idle"
    /\ calls < MaxCalls
    /\ CallWith(action, executeTurn(state, action),
                callOf(action, getValidActions(state, action.playerIndex),
                       getValidActions(state, state.currentPlayerIndex)))
    /\ UNCHANGED aiPlayers

\* the end of one loop body of executeAITurn: r is what the body produced
ChainStep(r) ==
    IF r.ok
    THEN /\ state' = r.state
         /\ hist' = histAfter(hist, state, r.state, state.currentPlayerIndex,
                              r.state.pendingDiscard = NoDiscard)
         /\ pc' = pcAfter(r.state)
         /\ saved' = IF pcAfter(r.state) = "ai" THEN saved ELSE NoSaved
         /\ UNCHANGED last
    ELSE \* the error leaves executeTurn: the caller keeps the state it had
         /\ state' = saved.state
         /\ hist' = saved.hist
         /\ pc' = "threw"
         /\ saved' = NoSaved
         /\ last' = [last EXCEPT !.outcome = "chainError", !.error = r.error]

AIDiscard ==
    /\ pc = "ai"
    /\ aiMustDiscard(state)
    /\ ChainStep(aiDiscardTurn(state))
    /\ UNCHANGED <<aiPlayers, calls>>

\* a variant that ends the turn of the player without AI through the reducer
AISkip_EndTurn ==
    /\ pc = "ai"
    /\ ~aiMustDiscard(state)
    /\ state.currentPlayerIndex \notin aiPlayers
    /\ state' = gameReducer(state, EndTurn(state.currentPlayerIndex)).state
    /\ pc' = pcAfter(state')
    /\ saved' = IF pc' = "ai" THEN saved ELSE NoSaved
    /\ UNCHANGED <<aiPlayers, last, hist, calls>>

AISkip ==
    /\ pc = "ai"
    /\ ~aiMustDiscard(state)
    /\ state.currentPlayerIndex \notin aiPlayers
    /\ state' = advanceToNextPlayer(state)
    /\ pc' = pcAfter(state')
    /\ saved' = IF pc' = "ai" THEN saved ELSE NoSaved
    /\ UNCHANGED <<aiPlayers, last, hist, calls>>

AIDecide(proposal) ==
    /\ pc = "ai"
    /\ ~aiMustDiscard(state)
    /\ state.currentPlayerIndex \in aiPlayers
    /\ ChainStep(aiDecidedTurn(state, proposal))
    /\ UNCHANGED <<aiPlayers, calls>>

\* the caller's continuation: the promise of executeTurn is settled, with the
\* state it returned or with the error it threw (the caller then keeps its state)
Settle ==
    /\ pc \in {"returned", "threw"}
    /\ pc' = "idle"
    /\ last' = NoLast
    /\ UNCHANGED <<state, saved, aiPlayers, hist, calls>>

Next ==
    \/ \E action \in Submitted(state) : ExecuteTurn(action)
    \/ AIDiscard
    \/ AISkip
    \/ \E proposal \in Proposals(state) : AIDecide(proposal)
    \/ Settle

Spec == Init /\ [][Next]_vars

\* a step taken inside the loop of executeAITurn: by Next it is a step of
\* AIDiscard, AISkip or AIDecide, one of which is enabled whenever pc = "ai"
AILoopStep == pc = "ai" /\ vars' # vars

\* the loop of executeAITurn goes on (weak fairness of its body, which is
\* enabled exactly when pc = "ai"): the body is synchronous code behind
\* `await this.delay(500)`, a timer that always fires
FairSpec == Spec /\ ([]<>(pc # "ai") \/ []<><<AILoopStep>>_vars)

-----------------------------------------------------------------------------
(* Properties *)

PlayersOf(s) == DOMAIN s.players

\* the tokens of one colour the players hold between them (at most four players)
heldByPlayers(s, c) ==
    LET held(p) == IF p \in PlayersOf(s) THEN s.players[p].gems[c] ELSE 0
    IN  held(0) + held(1) + held(2) + held(3)

\* the tokens of one colour a game of that many players starts with
tokensAtStart(s, c) ==
    IF c = "gold" THEN GOLD_GEMS ELSE GEMS_PER_PLAYER_COUNT(numPlayers(s))

\* the number of places that hold the card: decks, displayed rows, reserves, purchases
placesOfCard(s, id) ==
    LET inDecks == Cardinality({l \in Levels : id \in SeqSet(s.deck[l])})
        inRows == Cardinality({l \in Levels : id \in SeqSet(s.displayedCards[l])})
        inReserves == Cardinality({p \in PlayersOf(s) : id \in SeqSet(s.players[p].reservedCards)})
        inPurchases == Cardinality({p \in PlayersOf(s) : id \in SeqSet(s.players[p].purchasedCards)})
    IN  inDecks + inRows + inReserves + inPurchases

\* no sequence that holds cards holds one twice
noCardTwice(s) ==
    LET once(q) == \A i, j \in DOMAIN q : q[i] = q[j] => i = j
    IN  /\ \A l \in Levels : once(s.deck[l]) /\ once(s.displayedCards[l])
        /\ \A p \in PlayersOf(s) :
                once(s.players[p].reservedCards) /\ once(s.players[p].purchasedCards)

heldNobles(s, id, p) == IF p \in PlayersOf(s) THEN Occ(s.players[p].nobles, id) ELSE 0

\* the number of places that hold the noble: the pool, or a player
placesOfNoble(s, id) ==
    Occ(s.nobles, id)
        + heldNobles(s, id, 0) + heldNobles(s, id, 1)
        + heldNobles(s, id, 2) + heldNobles(s, id, 3)

PhaseRank(phase) ==
    CASE phase = "setup" -> 0
      [] phase = "active" -> 1
      [] phase = "endGame" -> 2
      [] phase = "finished" -> 3

\* the result r of a reducer applied to s is not in an earlier phase than s
phaseKept(s, r) == r.ok => PhaseRank(r.state.gamePhase) >= PhaseRank(s.gamePhase)

\* C1: every player holds at most MAX_GEMS_PER_PLAYER gems (five colours plus
\* gold), unless pendingDiscard is set for that player
C1_GemCap ==
    \A p \in PlayersOf(state) :
        countGems(state.players[p].gems) > MAX_GEMS_PER_PLAYER
            => state.pendingDiscard.playerIndex = p

\* the human player went over the cap by an accepted call, and owes a discard
C1_Witness ==
    /\ calls > 0
    /\ ~state.players[state.currentPlayerIndex].isAI
    /\ countGems(state.players[state.currentPlayerIndex].gems) > MAX_GEMS_PER_PLAYER
    /\ state.pendingDiscard.playerIndex = state.currentPlayerIndex

\* C2: once a player's points have reached WINNING_POINTS in the active phase,
\* the phase is not finished before every other player has completed exactly one
\* more turn
C2_FinalRound ==
    (hist.trigger # -1 /\ state.gamePhase = "finished")
        => \A p \in PlayersOf(state) \ {hist.trigger} : hist.turns[p + 1] = 1

\* C3: when executeTurn returns a state whose phase is finished, winner is set
\* and is the lowest-indexed player among those with the highest points
C3_WinnerSet ==
    (pc = "returned" /\ state.gamePhase = "finished")
        => (state.winner # NoWinner /\ state.winner = highestPoints(state))

\* C4: gameReducer and checkEndGame, applied to a reachable state, never give a
\* state of an earlier phase, and no step that a call of executeTurn completes
\* moves gamePhase to an earlier phase: finished is never left (a call that
\* throws hands no state to its caller)
C4_PhaseForward ==
    /\ [](\A action \in Submitted(state) : phaseKept(state, gameReducer(state, action)))
    /\ [](phaseKept(state, Ok(checkEndGame(state))))
    /\ [][pc' # "threw" => PhaseRank(state'.gamePhase) >= PhaseRank(state.gamePhase)]_vars

\* the game is finished, and a later call was accepted and left it finished
C4_Witness == state.gamePhase = "finished" /\ hist.played

\* C5: for each colour and for gold, the pool and the players together hold the
\* number of tokens the game started with
C5_Conservation ==
    \A c \in AllColorSet :
        state.gemPool[c] + heldByPlayers(state, c) = tokensAtStart(state, c)

\* C6: no count of the pool and no count of a player's gems is negative
C6_NonNegative ==
    \A c \in AllColorSet :
        /\ state.gemPool[c] >= 0
        /\ \A p \in PlayersOf(state) : state.players[p].gems[c] >= 0

\* C7: each card of the catalog is in exactly one place: a deck, a displayed
\* row, one player's reserved cards or one player's purchased cards
C7_CardInOnePlace ==
    /\ noCardTwice(state)
    /\ \A id \in CardIds : placesOfCard(state, id) = 1

\* in the two-player game the human player has bought a second card and
\* reserved one
C7_Witness ==
    /\ numPlayers(state) = 2
    /\ Len(state.players[0].purchasedCards) = 2
    /\ Len(state.players[0].reservedCards) = 1

\* C8: each noble of the game is in the pool or held by exactly one player, and
\* a noble that has left the pool does not come back into a state a call hands
\* to its caller
C8_NobleInOnePlace ==
    /\ [](/\ \A id \in NobleIds : placesOfNoble(state, id) <= 1
          /\ Cardinality({id \in NobleIds : placesOfNoble(state, id) = 1})
                = numPlayers(state) + 1)
    /\ [][pc' # "threw" => SeqSet(state'.nobles) \subseteq SeqSet(state.nobles)]_vars

\* in the two-player game the human player holds a noble
C8_Witness == numPlayers(state) = 2 /\ state.players[0].nobles # <<>>

\* C9: a call of executeTurn with an element of getValidActions(state, p) never
\* ends with an error thrown by the transition function
C9_OfferedNeverThrows ==
    (pc = "threw" /\ last.offered) => last.outcome \notin {"reducerError", "chainError"}

\* C10: executeTurn rejects, and hands no new state to its caller, when the
\* action is for a player other than the current one or matches no element of
\* getValidActions for the current player
C10_MisuseRejected ==
    [][(pc = "idle" /\ last'.misuse) => (pc' = "threw" /\ state' = state)]_vars

\* a call made in the name of a player whose turn it is not was rejected
C10_Witness == pc = "threw" /\ last.outcome = "wrongPlayer" /\ last.misuse

\* the state post carries the discard obligation of player p exactly when p
\* holds more than MAX_GEMS_PER_PLAYER gems, and for the excess
discardOwedFor(post, p) ==
    LET total == countGems(post.players[p].gems)
    IN  IF total > MAX_GEMS_PER_PLAYER
        THEN post.pendingDiscard = [playerIndex |-> p, count |-> total - MAX_GEMS_PER_PLAYER]
        ELSE post.pendingDiscard = NoDiscard

\* C11: after a call of executeTurn with an action other than END_TURN,
\* pendingDiscard is set exactly when the acting player's total of gems exceeds
\* MAX_GEMS_PER_PLAYER, its count is that total minus MAX_GEMS_PER_PLAYER, and
\* currentPlayerIndex is unchanged
C11_DiscardOwed ==
    [][(pc = "idle" /\ pc' = "returned" /\ last'.type # "END_TURN")
        => /\ state'.currentPlayerIndex = state.currentPlayerIndex
           /\ discardOwedFor(state', state.currentPlayerIndex)]_vars

\* a reservation was accepted that brought the human player to 11 gems: one
\* discard is owed
C11_Witness ==
    /\ pc = "returned"
    /\ last.type = "RESERVE_CARD"
    /\ countGems(state.players[state.currentPlayerIndex].gems) = MAX_GEMS_PER_PLAYER + 1
    /\ state.pendingDiscard = [playerIndex |-> state.currentPlayerIndex, count |-> 1]

\* the action is a DISCARD_GEMS by the player who owes the discard of s, naming
\* exactly the count owed, of gems that player holds
settlesDiscard(s, action) ==
    /\ action.type = "DISCARD_GEMS"
    /\ action.playerIndex = s.pendingDiscard.playerIndex
    /\ Len(action.gems) = s.pendingDiscard.count
    /\ \A c \in AllColorSet :
            gemCounts(action.gems)[c] <= s.players[action.playerIndex].gems[c]

\* C12: while pendingDiscard is set, executeTurn accepts an action exactly when
\* it is a DISCARD_GEMS by the player who owes it, of exactly count gems that
\* the player holds; END_TURN, a discard of a wrong count and a discard of gems
\* not held are rejected, and a rejected call hands no new state to its caller
C12_OnlyDiscard ==
    /\ [](state.pendingDiscard # NoDiscard
            => \A action \in Submitted(state) :
                    /\ executeTurn(state, action).outcome = "accepted"
                            <=> (/\ action.playerIndex = state.currentPlayerIndex
                                 /\ settlesDiscard(state, action))
                    /\ action.type = "END_TURN"
                            => ~gameReducer(state, action).ok)
    /\ [][(pc = "idle" /\ state.pendingDiscard # NoDiscard /\ pc' # "idle")
            => \/ pc' = "threw" /\ state' = state
               \/ /\ pc' = "returned"
                  /\ last'.type = "DISCARD_GEMS"
                  /\ state'.pendingDiscard = NoDiscard]_vars

\* the human player owes a discard, and a DISCARD_GEMS that does not settle it
\* was rejected
C12_Witness ==
    /\ pc = "threw"
    /\ last.type = "DISCARD_GEMS"
    /\ last.outcome \in {"invalidAction", "reducerError"}
    /\ state.pendingDiscard.playerIndex = state.currentPlayerIndex
    /\ state.pendingDiscard.count = 1

\* C13: whenever currentPlayerIndex moves away from a player, that player holds
\* at most MAX_GEMS_PER_PLAYER gems and owes no discard (a call that throws
\* hands no state to its caller, and moves nothing)
C13_TurnEndsUnderCap ==
    [][(pc' # "threw" /\ state'.currentPlayerIndex # state.currentPlayerIndex)
        => /\ countGems(state'.players[state.currentPlayerIndex].gems)
                    <= MAX_GEMS_PER_PLAYER
           /\ state'.pendingDiscard.playerIndex # state.currentPlayerIndex]_vars

\* the counts taken from a pool are two of one colour that held at least 4, or
\* one each of three colours, or one each of one or two colours when fewer than
\* three colours were left in the pool; and no gold
takeShape(pool, taken) ==
    LET left == {c \in ColorSet : pool[c] > 0}
        ones == {c \in ColorSet : taken[c] = 1}
        twos == {c \in ColorSet : taken[c] = 2}
    IN  /\ taken["gold"] = 0
        /\ \A c \in ColorSet : taken[c] \in 0 .. 2
        /\ \/ Cardinality(twos) = 1 /\ ones = {} /\ \A c \in twos : pool[c] >= 4
           \/ twos = {} /\ Cardinality(ones) = 3
           \/ twos = {} /\ Cardinality(ones) \in {1, 2} /\ Cardinality(left) < 3

\* the pools the takes are tried on: of each colour none, 2 or 4
PoolCounts == {0, 2, 4}
TakePools == {[c \in AllColorSet |-> IF c = "gold" THEN GOLD_GEMS ELSE f[c]] :
                f \in [ColorSet -> PoolCounts]}

\* executeTurn accepts the take of gems from s only in one of the shapes
takesInShape(s, gems) ==
    executeTurn(s, TakeGems(s.currentPlayerIndex, gems)).outcome = "accepted"
        => takeShape(s.gemPool, gemCounts(gems))

\* a take of two of colour c from a pool of 4 leaves 2, and is then rejected
twoThenNone(s, c) ==
    LET take == TakeGems(s.currentPlayerIndex, <<c, c>>)
        r == executeTurn(s, take)
    IN  r.outcome = "accepted"
            => /\ r.state.gemPool[c] = s.gemPool[c] - 2
               /\ s.gemPool[c] = 4 => executeTurn(r.state, take).outcome = "invalidAction"

\* C14: every TAKE_GEMS that executeTurn accepts takes two gems of one colour
\* whose pool count was at least 4, or three distinct colours, or one or two
\* distinct colours when fewer than three colours were left in the pool, never
\* gold, and moves just those gems from the pool to the player; a take of two
\* red from a pool of 4 red leaves 2 red, and the same take is then rejected
C14_TakeShapes ==
    /\ [][(pc = "idle" /\ pc' = "returned" /\ last'.type = "TAKE_GEMS")
            => LET p == state.currentPlayerIndex
                   taken == [c \in AllColorSet |->
                                state'.players[p].gems[c] - state.players[p].gems[c]]
               IN  /\ takeShape(state.gemPool, taken)
                   /\ \A c \in AllColorSet :
                        state'.gemPool[c] = state.gemPool[c] - taken[c]]_vars
    /\ [](\A c \in ColorSet : twoThenNone(state, c))
    /\ []((pc = "idle" /\ calls = 0)
            => \A pool \in TakePools : \A gems \in GemSelections :
                    takesInShape([state EXCEPT !.gemPool = pool], gems))

\* in the new two-player game the take of two red was accepted: 2 red are left
\* of 4
C14_Witness ==
    /\ pc = "returned"
    /\ last.type = "TAKE_GEMS"
    /\ state.players[0].gems = [NoGems EXCEPT !["red"] = 2]
    /\ state.gemPool["red"] = 2
    /\ GEMS_PER_PLAYER_COUNT(numPlayers(state)) = 4

\* the selection is two of one colour of which the pool holds at least 4, or
\* three distinct colours, and holds no gold
selectionShape(pool, gems) ==
    /\ "gold" \notin SeqSet(gems)
    /\ \/ Len(gems) = 2 /\ gems[1] = gems[2] /\ pool[gems[1]] >= 4
       \/ Len(gems) = 3 /\ Cardinality(SeqSet(gems)) = 3

\* C15: validateGemTake, and with it the TAKE_GEMS transition of gameReducer,
\* accepts a selection only if it is two of one colour whose pool count is at
\* least 4 or three distinct colours, without gold, and the pool holds the gems
\* and the player's total after the take is at most MAX_GEMS_PER_PLAYER
C15_TakeValidated ==
    LET p == state.currentPlayerIndex
        held == state.players[p].gems
    IN  \A gems \in GemSelections :
            /\ gameReducer(state, TakeGems(p, gems)).ok
                    => validateGemTake(gems, state.gemPool, held)
            /\ validateGemTake(gems, state.gemPool, held)
                    => /\ selectionShape(state.gemPool, gems)
                       /\ \A c \in AllColorSet : Occ(gems, c) <= state.gemPool[c]
                       /\ countGems(held) + Len(gems) <= MAX_GEMS_PER_PLAYER

\* the cost of the card to the player: per colour, the cost less the number of
\* purchased cards of that colour, and not below 0
discountedCost(playerState, card) ==
    LET discount == calculateGemDiscount(playerState)
    IN  [c \in ColorSet |-> Max(0, card.cost[c] - discount[c])]

\* C16: a purchase of a displayed or reserved card is legal, in getValidActions
\* and in the PURCHASE_CARD transition, exactly when the card's cost less the
\* player's bonus discount is covered by the player's coloured gems, with gold
\* for any shortfall
C16_DiscountedPurchase ==
    LET p == state.currentPlayerIndex
        player == state.players[p]
    IN  state.pendingDiscard = NoDiscard
            => \A id \in allDisplayed(state) \cup SeqSet(player.reservedCards) :
                LET legal == canAfford(player.gems, discountedCost(player, CardOf[id]))
                IN  /\ PurchaseCard(p, id) \in getValidActions(state, p) <=> legal
                    /\ gameReducer(state, PurchaseCard(p, id)).ok <=> legal

\* the player's purchased cards, counted per colour, meet the noble's requirement
bonusesMeet(playerState, noble) ==
    \A c \in ColorSet : calculateGemDiscount(playerState)[c] >= noble.requirement[c]

\* C17: a player is eligible for a noble of the pool exactly when the player's
\* per-colour counts of purchased cards meet the noble's requirement, whatever
\* gems the player holds
C17_NobleByBonuses ==
    \A p \in PlayersOf(state) : \A n \in SeqSet(state.nobles) :
        /\ canClaimNoble(state.players[p], NobleOf[n])
                <=> bonusesMeet(state.players[p], NobleOf[n])
        /\ n \in SeqSet(getEligibleNobles(state, p))
                <=> bonusesMeet(state.players[p], NobleOf[n])

\* the points of a sequence of nobles
RECURSIVE noblePoints(_)
noblePoints(nobles) ==
    IF nobles = <<>> THEN 0 ELSE NobleOf[Head(nobles)].points + noblePoints(Tail(nobles))

\* C18: END_TURN for player i gives player i every noble of the pool for which
\* player i is eligible, and those only, adds the points of each, and sets
\* currentPlayerIndex to (i + 1) modulo the number of players
C18_EndTurnAwards ==
    LET i == state.currentPlayerIndex
        r == gameReducer(state, EndTurn(i))
        eligible == SelectSeq(state.nobles,
                              LAMBDA n : bonusesMeet(state.players[i], NobleOf[n]))
    IN  state.pendingDiscard = NoDiscard
            => /\ r.ok
               /\ r.state.players[i].nobles = state.players[i].nobles \o eligible
               /\ r.state.players[i].points
                    = state.players[i].points + noblePoints(eligible)
               /\ r.state.currentPlayerIndex = (i + 1) % numPlayers(state)

\* C19: no player holds more than MAX_RESERVED_CARDS reserved cards; for a
\* player who holds that many, gameReducer rejects every RESERVE_CARD and
\* getValidActions holds none
C19_ReserveCap ==
    \A p \in PlayersOf(state) :
        /\ Len(state.players[p].reservedCards) <= MAX_RESERVED_CARDS
        /\ Len(state.players[p].reservedCards) = MAX_RESERVED_CARDS
            => /\ \A c \in NamedCards(state) : ~gameReducer(state, ReserveCard(p, c)).ok
               /\ \A a \in getValidActions(state, p) : a.type # "RESERVE_CARD"

\* the human player holds 3 reserved cards, and a further reservation was
\* rejected
C19_Witness ==
    /\ pc = "threw"
    /\ last.type = "RESERVE_CARD"
    /\ ~state.players[state.currentPlayerIndex].isAI
    /\ Len(state.players[state.currentPlayerIndex].reservedCards) = MAX_RESERVED_CARDS
    /\ state.pendingDiscard = NoDiscard

\* C20: the phase goes from setup to active exactly when the turn index comes
\* back to player 0: no step brings the turn back to player 0 and leaves the
\* phase setup, and no other step leaves setup for active (a call that throws
\* hands no state to its caller, and moves nothing)
C20_SetupOneRound ==
    [][(pc' # "threw" /\ state.gamePhase = "setup")
        => /\ (state.currentPlayerIndex # 0 /\ state'.currentPlayerIndex = 0)
                => state'.gamePhase # "setup"
           /\ state'.gamePhase = "active"
                => (state.currentPlayerIndex # 0 /\ state'.currentPlayerIndex = 0)]_vars

\* the state is one executeTurn may hand back after END_TURN: the game is
\* finished, or a human player is to move
chainEnded(s) == s.gamePhase = "finished" \/ ~s.players[s.currentPlayerIndex].isAI

\* C21: a call of executeTurn with END_TURN that resolves hands back a state
\* whose phase is finished or whose current player is human; the chain of AI
\* turns it started comes to that, or to an error, and hands the turn on from
\* one player to the next
C21_ChainToHuman ==
    /\ []((pc = "returned" /\ last.type = "END_TURN") => chainEnded(state))
    /\ (pc = "ai") ~> (pc = "threw" \/ (pc = "returned" /\ chainEnded(state)))
    /\ [][(pc = "ai" /\ pc' = "returned" /\ state'.gamePhase # "finished")
            => state'.currentPlayerIndex
                    = (state.currentPlayerIndex + 1) % numPlayers(state)]_vars

\* the chain of AI turns started by the human player's END_TURN has ended, and
\* the human player is to move again in a game that goes on
C21_Witness ==
    /\ pc = "returned"
    /\ last.type = "END_TURN"
    /\ aiPlayers # {}
    /\ state.gamePhase \in {"setup", "active"}
    /\ ~state.players[state.currentPlayerIndex].isAI

C23_AIFailuresAbsorbed ==
    /\ pc = "ai"
        => \A proposal \in Proposals(state) :
            (\/ proposal = Thrown
             \/ ~isActionValid(state, proposal,
                               getValidActions(state, state.currentPlayerIndex)))
                => aiActionOf(state, proposal) = EndTurn(state.currentPlayerIndex)
    /\ pc = "threw" => last.outcome # "chainError"

\* ai/aiPlayer.ts, the class of lines 27-867.  The strategies choose among
\* candidate lists by scores and
\* by Math.random(): each strategy is the set of the actions it may return

\* a variant that offers two of a colour whenever validateGemTake allows it
getValidGemMoves_NoFour(s, playerState) ==
    {<<c, c>> : c \in {d \in ColorSet : validateGemTake(<<d, d>>, s.gemPool, playerState.gems)}}

getValidGemMoves(s, playerState) ==
    LET holds(gems) == validateGemTake(gems, s.gemPool, playerState.gems)
        twoSame == {<<c, c>> : c \in {d \in ColorSet : holds(<<d, d>>) /\ s.gemPool[d] >= 4}}
        combinations == {<<Colors[t[1]], Colors[t[2]], Colors[t[3]]>> : t \in IndexTriples}
    IN  twoSame \cup {combo \in combinations : holds(combo)}

\* a variant that offers the player's reserved cards as well
getAffordableCards_WithReserved(s, playerState) ==
    {d \in allDisplayed(s) \cup SeqSet(playerState.reservedCards) :
        canPurchaseCard(playerState, CardOf[d])}

getAffordableCards(s, playerState) ==
    {d \in allDisplayed(s) : canPurchaseCard(playerState, CardOf[d])}

getReservableCards(s, playerState) ==
    IF Len(playerState.reservedCards) >= MAX_RESERVED_CARDS THEN {}
    ELSE {d \in allDisplayed(s) :
            /\ d \notin SeqSet(playerState.reservedCards)
            /\ d \notin SeqSet(playerState.purchasedCards)}

isOpeningTurn(playerState) ==
    countGems(playerState.gems) = 0 /\ Len(playerState.purchasedCards) = 0

\* the candidates of a strategy, as actions of the player
aiPurchases(s, playerIndex) ==
    {PurchaseCard(playerIndex, d) : d \in getAffordableCards(s, s.players[playerIndex])}
aiTakes(s, playerIndex) ==
    {TakeGems(playerIndex, gems) : gems \in getValidGemMoves(s, s.players[playerIndex])}
aiReserves(s, playerIndex) ==
    IF isOpeningTurn(s.players[playerIndex]) THEN {}
    ELSE {ReserveCard(playerIndex, d) : d \in getReservableCards(s, s.players[playerIndex])}

\* a purchase at random; else a take if there is one; else a reservation at
\* random, a purchase, or END_TURN when nothing is affordable
easyStrategy(purchases, takes, reserves, playerIndex) ==
    purchases
        \cup (IF takes # {} THEN takes
              ELSE reserves \cup (IF purchases = {} THEN {EndTurn(playerIndex)} ELSE {}))

\* a random move among a purchase, the takes, a reservation and END_TURN; else
\* the best purchase, else the best take, else the best reservation or END_TURN
mediumStrategy(purchases, takes, reserves, playerIndex) ==
    purchases \cup takes \cup reserves \cup {EndTurn(playerIndex)}

\* the best purchase; else the best take; else the best reservation or END_TURN
hardStrategy(purchases, takes, reserves, playerIndex) ==
    IF purchases # {} THEN purchases
    ELSE IF takes # {} THEN takes
    ELSE reserves \cup {EndTurn(playerIndex)}

Difficulties == {"easy", "medium", "hard"}

\* what decideAction of the AI registered for playerIndex may return
decideAction(s, playerIndex, difficulty) ==
    LET purchases == aiPurchases(s, playerIndex)
        takes == aiTakes(s, playerIndex)
        reserves == aiReserves(s, playerIndex)
    IN  CASE difficulty = "hard" -> hardStrategy(purchases, takes, reserves, playerIndex)
          [] difficulty = "medium" -> mediumStrategy(purchases, takes, reserves, playerIndex)
          [] OTHER -> easyStrategy(purchases, takes, reserves, playerIndex)

shedLargestFirst(before, after, count) ==
    /\ countGems(before) - countGems(after) = count
    /\ \A c \in AllColorSet : after[c] <= before[c]
    /\ after["gold"] < before["gold"] => \A c \in ColorSet : after[c] = 0
    /\ \A c, d \in ColorSet :
            (after[c] < before[c] /\ before[d] > before[c]) => after[d] = 0

\* C25: when an AI player holds more than MAX_GEMS_PER_PLAYER gems after its
\* action, the next thing the controller does is that player's discard: of
\* exactly the excess, from the colour held most first and from gold last,
\* after which the player holds exactly MAX_GEMS_PER_PLAYER gems and the turn
\* has passed on
C25_AIDiscardsExcess ==
    /\ [][(/\ pc = "ai"
            /\ pc' # "threw"
            /\ countGems(state'.players[state.currentPlayerIndex].gems)
                    > MAX_GEMS_PER_PLAYER)
            => /\ pc' = "ai"
               /\ aiMustDiscard(state')
               /\ state'.currentPlayerIndex = state.currentPlayerIndex]_vars
    /\ [][(pc = "ai" /\ aiMustDiscard(state))
            => LET p == state.currentPlayerIndex
               IN  /\ pc' # "threw"
                   /\ shedLargestFirst(state.players[p].gems, state'.players[p].gems,
                                       state.pendingDiscard.count)
                   /\ countGems(state'.players[p].gems) = MAX_GEMS_PER_PLAYER
                   /\ state'.pendingDiscard = NoDiscard
                   /\ state'.currentPlayerIndex # p]_vars

\* the actions of a turn: a take, a reservation or a purchase
TurnActions(s) ==
    {a \in Submitted(s) : a.type \in {"TAKE_GEMS", "RESERVE_CARD", "PURCHASE_CARD"}}

\* C26: a player performs one action per turn: once executeTurn has accepted a
\* take, a reservation or a purchase, it accepts no other from the state it
\* returned, in which the turn is still that player's
C26_OneActionPerTurn ==
    pc = "idle"
        => \A first \in TurnActions(state) :
            LET r == executeTurn(state, first)
            IN  (r.outcome = "accepted"
                    /\ r.state.currentPlayerIndex = state.currentPlayerIndex)
                    => \A second \in TurnActions(r.state) :
                            executeTurn(r.state, second).outcome # "accepted"

\* C27: an action of the current player that passes the validation of
\* executeTurn is applied by the transition function without error: no call
\* reaches the caller with an error thrown by the transition function
C27_ValidatedNeverThrows ==
    pc = "threw" => last.outcome # "reducerError"

-----------------------------------------------------------------------------
(* checkEndGame as a function of the state it is given *)

\* the points a player of a drawn state has
PointsDrawn == {14, 15, 16}

\* the states checkEndGame is applied to: a new game of two or of three players,
\* in any phase, at any player's turn, with any drawn points
EndGameInputs ==
    {[g EXCEPT !.gamePhase = phase, !.currentPlayerIndex = index,
               !.players = [q \in DOMAIN g.players |->
                                [g.players[q] EXCEPT !.points = points[q]]]] :
        g \in {Fresh2, Fresh3}, phase \in {"setup", "active", "endGame", "finished"},
        index \in {0, 1, 2}, points \in [{0, 1, 2} -> PointsDrawn]}

EndInit ==
    /\ state \in {s \in EndGameInputs : s.currentPlayerIndex \in DOMAIN s.players}
    /\ aiPlayers = {}
    /\ saved = NoSaved
    /\ pc = "idle"
    /\ last = NoLast
    /\ hist = NoHist
    /\ calls = 0

CheckEndGame ==
    /\ pc = "idle"
    /\ state' = checkEndGame(state)
    /\ pc' = "returned"
    /\ UNCHANGED <<aiPlayers, saved, last, hist, calls>>

EndSpec == EndInit /\ [][CheckEndGame]_vars

\* C28: whenever checkEndGame sets winner, the winner's points are greater than
\* or equal to every other player's points, and no player with a lower index
\* has the same points
C28_WinnerHighestFirst ==
    [][(CheckEndGame /\ state'.winner # state.winner)
        => /\ state'.winner \in DOMAIN state.players
           /\ \A j \in DOMAIN state.players :
                /\ state.players[j].points <= state.players[state'.winner].points
                /\ j < state'.winner
                    => state.players[j].points < state.players[state'.winner].points]_vars

\* checkEndGame named the second of three players, who shares the highest points
\* with the third
C28_Witness ==
    /\ pc = "returned" /\ numPlayers(state) = 3 /\ state.gamePhase = "finished"
    /\ state.winner = 1
    /\ state.players[2].points = state.players[1].points

-----------------------------------------------------------------------------
(* The displayed rows *)

DISPLAYED_PER_TIER == 4

\* the cards left in a tier's deck when a card leaves its row: all of them, or
\* only the first few
DeckLeft == {0, 1, 2, Len(LEVEL_1_CARDS)}

withDeckLeft(s, l, left) == [s EXCEPT !.deck[l] = SubSeq(@, 1, Min(left, Len(@)))]

rowsFilled(s) ==
    \A l \in Levels :
        /\ Len(s.displayedCards[l]) <= DISPLAYED_PER_TIER
        /\ s.deck[l] # <<>> => Len(s.displayedCards[l]) = DISPLAYED_PER_TIER

\* r is what the reducer gave for the reservation or purchase of cardId in s: if
\* the card lay in its row, it left the row and the top card of the deck, if
\* there was one, came in its place
refilledAfter(s, cardId, l, r) ==
    (r.ok /\ cardId \in SeqSet(s.displayedCards[l]))
        => /\ rowsFilled(r.state)
           /\ cardId \notin SeqSet(r.state.displayedCards[l])
           /\ r.state.deck[l] = Rest(s.deck[l])
           /\ SeqSet(r.state.displayedCards[l])
                = (SeqSet(s.displayedCards[l]) \ {cardId})
                    \cup (IF s.deck[l] # <<>> THEN {Head(s.deck[l])} ELSE {})

\* C29: after a displayed card is reserved or purchased, the top card of that
\* tier's deck takes its place whenever the deck is non-empty: each tier shows
\* exactly 4 cards while its deck is non-empty and never more than 4
C29_RowsRefilled ==
    /\ rowsFilled(state)
    /\ pc = "idle"
        => \A a \in {b \in Submitted(state) : b.type \in {"RESERVE_CARD", "PURCHASE_CARD"}} :
            \A left \in DeckLeft :
                LET l == CardOf[a.card].level
                    s == withDeckLeft(state, l, left)
                IN  refilledAfter(s, a.card, l, gameReducer(s, a))

\* a displayed card of level 3 was reserved in the two-player game and the row
\* shows four cards again
C29_Witness ==
    /\ pc = "returned" /\ last.type = "RESERVE_CARD" /\ last.outcome = "accepted"
    /\ numPlayers(state) = 2
    /\ Len(state.deck[3]) = Len(LEVEL_3_CARDS) - DISPLAYED_PER_TIER - 1
    /\ Len(state.displayedCards[3]) = DISPLAYED_PER_TIER

-----------------------------------------------------------------------------
(* The price of a purchase *)

\* what the buyer owes for card: per colour max(0, cost - bonus), paid in that
\* colour as far as the buyer's gems go, the shortfall in gold
chargeFor(playerState, card) ==
    LET due == discountedCost(playerState, card)
    IN  [c \in AllColorSet |->
            IF c = "gold"
            THEN SumColors([d \in ColorSet |-> Max(0, due[d] - playerState.gems[d])])
            ELSE Min(due[c], playerState.gems[c])]

\* r is what the reducer gave for the purchase of card by player p in s
chargedAfter(s, p, card, r) ==
    r.ok => LET charge == chargeFor(s.players[p], card)
            IN  \A c \in AllColorSet :
                    /\ r.state.players[p].gems[c] = s.players[p].gems[c] - charge[c]
                    /\ r.state.gemPool[c] = s.gemPool[c] + charge[c]
                    /\ r.state.players[p].gems[c] <= s.players[p].gems[c]
                    /\ r.state.gemPool[c] >= s.gemPool[c]

\* C30: a purchase charges the buyer, per colour, max(0, cost - bonus), paid from
\* coloured gems first with gold covering the shortfall, and returns exactly
\* that amount to the pool; no gem count of the buyer increases and no pool
\* count decreases
C30_PurchaseCharge ==
    pc = "idle"
        => \A a \in {b \in Submitted(state) : b.type = "PURCHASE_CARD"} :
            chargedAfter(state, a.playerIndex, CardOf[a.card], gameReducer(state, a))

-----------------------------------------------------------------------------
(* The discard obligation and the turn *)

\* C31: whenever pendingDiscard is set, its playerIndex equals
\* currentPlayerIndex and its count equals that player's gem total minus
\* MAX_GEMS_PER_PLAYER, which is positive
C31_DiscardOfCurrent ==
    state.pendingDiscard # NoDiscard
        => /\ state.pendingDiscard.playerIndex = state.currentPlayerIndex
           /\ state.pendingDiscard.count > 0
           /\ state.pendingDiscard.count
                = countGems(state.players[state.pendingDiscard.playerIndex].gems)
                    - MAX_GEMS_PER_PLAYER

\* the discards of gems the player holds, of the count owed
heldDiscards(s, p) ==
    {DiscardGems(p, g) : g \in {h \in GemSelections :
        /\ Len(h) = s.pendingDiscard.count
        /\ \A c \in AllColorSet : gemCounts(h)[c] <= s.players[p].gems[c]}}

\* C32: in every reachable state whose phase is not finished, the current
\* player has an action that executeTurn accepts: END_TURN when no discard is
\* pending, otherwise a discard of gems the player holds
C32_CanProceed ==
    state.gamePhase # "finished"
        => IF state.pendingDiscard = NoDiscard
           THEN executeTurn(state, EndTurn(state.currentPlayerIndex)).outcome = "accepted"
           ELSE \E a \in heldDiscards(state, state.currentPlayerIndex) :
                    executeTurn(state, a).outcome = "accepted"

\* C33: every action that getValidActions returns for the current player,
\* submitted unchanged to executeTurn, passes the validation of executeTurn,
\* the discard returned while a discard is pending included
C33_OfferedPassValidation ==
    \A a \in getValidActions(state, state.currentPlayerIndex) :
        executeTurn(state, a).outcome # "invalidAction"

\* C34: the turn passes round-robin: every change of currentPlayerIndex in a
\* state the program goes on with is from i to (i + 1) modulo the number of
\* players, so that no player is passed over
C34_RoundRobin ==
    [][(pc' # "threw" /\ state'.currentPlayerIndex # state.currentPlayerIndex)
        => state'.currentPlayerIndex
            = (state.currentPlayerIndex + 1) % numPlayers(state)]_vars

\* C35: once gamePhase is finished, executeTurn accepts no further action, so
\* that no player's gems, cards, nobles or points change afterwards
C35_FinishedIsFinal ==
    state.gamePhase = "finished"
        => \A a \in Submitted(state) : executeTurn(state, a).outcome # "accepted"

-----------------------------------------------------------------------------
(* ai/aiPlayer.ts: the purchase the hard strategy makes *)

\* createProfile('hard'): two focus colours at random, nobleMissingMax 1
HardProfiles ==
    {[focusColors |-> f, nobleMissingMax |-> 1] :
        f \in {g \in SUBSET ColorSet : Cardinality(g) = 2}}

\* purchasedCards.filter(c => c.color === color).length
haveColor(purchasedCards, color) ==
    Cardinality({i \in DOMAIN purchasedCards : CardOf[purchasedCards[i]].color = color})

countMissingColors(purchasedCards, noble) ==
    LET missing(c) ==
            IF haveColor(purchasedCards, c) < noble.requirement[c]
            THEN noble.requirement[c] - haveColor(purchasedCards, c) ELSE 0
    IN  missing("red") + missing("blue") + missing("green") + missing("white")
            + missing("black")

meetsNobleRequirement(purchasedCards, noble) ==
    \A c \in ColorSet : haveColor(purchasedCards, c) >= noble.requirement[c]

getReachableNobles(playerState, nobles, profile) ==
    SelectSeq(nobles, LAMBDA n :
        countMissingColors(playerState.purchasedCards, NobleOf[n])
            <= profile.nobleMissingMax)

countGemCost(cost) == cost.red + cost.blue + cost.green + cost.white + cost.black

\* getCardDeficit(playerState, card).missingAfterGold
missingAfterGold(playerState, card) ==
    Max(0, goldNeededFor(playerState.gems, card.cost) - playerState.gems.gold)

evaluateCard(card, playerState, nobles, profile) ==
    LET tempCards == Append(playerState.purchasedCards, card.id)
        colorBonus ==
            Len(SelectSeq(nobles, LAMBDA n : meetsNobleRequirement(tempCards, NobleOf[n])))
        hasColor == haveColor(playerState.purchasedCards, card.color) > 0
    IN  Min(card.points * 15 + colorBonus * 10 + (4 - card.level) * 5
                + (IF hasColor THEN 0 ELSE 3)
                + (IF card.color \in profile.focusColors THEN 6 ELSE 0),
            100)

\* scoreCard(card, playerState, nobles, 'hard')
scoreCard(card, playerState, nobles, profile) ==
    evaluateCard(card, playerState, nobles, profile)
        + Max(0, 7 - countGemCost(card.cost)) * 3
        + Max(0, 4 - missingAfterGold(playerState, card)) * 5
        + (IF playerState.points < 6 /\ card.level = 1 THEN 8 ELSE 0)
        + (IF card.points >= 3 THEN 6 ELSE 0)

\* cards.sort((a, b) => score(b) - score(a))[0], the sort being stable: the
\* first of the cards with the highest score
bestCard(cards, playerState, nobles, profile) ==
    LET score(i) == scoreCard(CardOf[cards[i]], playerState, nobles, profile)
    IN  cards[CHOOSE i \in DOMAIN cards :
                /\ \A j \in DOMAIN cards : score(j) <= score(i)
                /\ \A j \in DOMAIN cards : j < i => score(j) < score(i)]

\* getAffordableCards, in the order of the rows
affordableCards(s, playerState) ==
    SelectSeq(s.displayedCards[1] \o s.displayedCards[2] \o s.displayedCards[3],
              LAMBDA d : canPurchaseCard(playerState, CardOf[d]))

\* priorities 1 and 2 of hardStrategy: the card it purchases when some card is
\* affordable ("" when none is): the best of the affordable cards that complete
\* the requirement of a reachable noble, else the best affordable card
hardPurchase(s, playerIndex, profile) ==
    LET playerState == s.players[playerIndex]
        affordable == affordableCards(s, playerState)
        reachableNobles == getReachableNobles(playerState, s.nobles, profile)
        nobleCards ==
            SelectSeq(affordable, LAMBDA d :
                \E k \in DOMAIN reachableNobles :
                    meetsNobleRequirement(Append(playerState.purchasedCards, d),
                                          NobleOf[reachableNobles[k]]))
    IN  IF affordable = <<>> THEN ""
        ELSE IF nobleCards # <<>> THEN bestCard(nobleCards, playerState, s.nobles, profile)
        ELSE bestCard(affordable, playerState, s.nobles, profile)

\* the affordable cards that bring the player to WINNING_POINTS
winningPurchases(s, playerIndex) ==
    {d \in SeqSet(affordableCards(s, s.players[playerIndex])) :
        s.players[playerIndex].points + CardOf[d].points >= WINNING_POINTS}

\* C36: the hard strategy never passes over a winning purchase: whenever some
\* card the AI player can afford would bring its points to WINNING_POINTS or
\* more, decideAction returns the purchase of such a card
C36_HardTakesWin ==
    LET cur == state.currentPlayerIndex
    IN  (state.players[cur].isAI /\ state.pendingDiscard = NoDiscard
            /\ winningPurchases(state, cur) # {})
            => \A profile \in HardProfiles :
                    hardPurchase(state, cur, profile) \in winningPurchases(state, cur)

-----------------------------------------------------------------------------
(* game/rules.ts, game/engine.ts: the limit on a take *)

\* the state after an accepted TAKE_GEMS of player p is within the limit:
\* player p holds at most MAX_GEMS_PER_PLAYER gems
takeWithinCap(s, p) == countGems(s.players[p].gems) <= MAX_GEMS_PER_PLAYER

-----------------------------------------------------------------------------
(* game/engine.ts: the points of a player *)

\* the points of a sequence of cards
RECURSIVE cardPoints(_)
cardPoints(cards) ==
    IF cards = <<>> THEN 0 ELSE CardOf[Head(cards)].points + cardPoints(Tail(cards))

\* C38: in every reachable state each player's points are the sum of the points
\* of the cards the player has purchased and of the nobles the player holds
C38_PointsAreEarned ==
    \A p \in DOMAIN state.players :
        state.players[p].points
            = cardPoints(state.players[p].purchasedCards) + noblePoints(state.players[p].nobles)

\* a player holds a card that gives points and a noble, having purchased the
\* card or received the noble in the call that just returned or is in flight
C38_Witness ==
    /\ last.outcome = "accepted"
    /\ \E p \in DOMAIN state.players :
            /\ cardPoints(state.players[p].purchasedCards) > 0
            /\ noblePoints(state.players[p].nobles) > 0
            /\ state.players[p].points >= WINNING_POINTS

-----------------------------------------------------------------------------
(* ai/aiPlayer.ts: the cards an AI player purchases *)

\* C39: every PURCHASE_CARD that decideAction returns, whatever the strategy,
\* names a card of the displayed rows and none of the player's reserve, so the
\* cards the AI player has reserved are still reserved after its turn
C39_AIBuysDisplayed ==
    LET cur == state.currentPlayerIndex
    IN  (pc = "ai" /\ state.pendingDiscard = NoDiscard)
            => \A difficulty \in Difficulties :
                   \A a \in decideAction(state, cur, difficulty) :
                       /\ a.type = "PURCHASE_CARD"
                            => a.card \in allDisplayed(state) \ reservedBy(state, cur)
                       /\ LET r == aiDecidedTurn(state, a)
                          IN  r.ok => reservedBy(state, cur) \subseteq reservedBy(r.state, cur)

\* decideAction is called for an AI player that can afford a card of its
\* reserve, and returns a purchase
C39_Witness ==
    LET cur == state.currentPlayerIndex
    IN  /\ pc = "ai" /\ state.pendingDiscard = NoDiscard
        /\ \E d \in reservedBy(state, cur) : canPurchaseCard(state.players[cur], CardOf[d])
        /\ \E a \in decideAction(state, cur, "hard") : a.type = "PURCHASE_CARD"

====
